---- MODULE Spec2Model ----
(***************************************************************************)
(* Model of the MotoRoute Telegram bot (src/flask_app.py): the polyline    *)
(* decoder, the multi-leg merge and the HTTP retry/fallback logic of       *)
(* valhalla_route, and the route-computation step of the webhook.          *)
(*                                                                         *)
(* Representation.  A Python string is a sequence of character codes       *)
(* (ord values).  A decoded coordinate lat/1e6 is kept as the integer      *)
(* number of micro-degrees lat (the division by 1e6 is a fixed scale and   *)
(* is injective on the integers used here), so a point is <<lat, lng>>.    *)
(***************************************************************************)
EXTENDS Integers, Sequences, FiniteSets, TLC

VARIABLES
    decSrc,     \* decoder harness: "none" | "encoder" | "raw" (where decIn comes from)
    decPts,     \* decoder harness: the points handed to the encoder (<<>> for raw input)
    decIn,      \* decoder harness: the string handed to decode_polyline6
    decOut,     \* decoder harness: NotDecoded or the outcome of decode_polyline6(decIn)
    mgTrip,     \* merge harness: the "trip" object of an oracle response
    mgOut,      \* merge harness: NotMerged or the outcome of the merge loop on mgTrip
    VALHALLA_URL,           \* configuration (environment), "" when unset
    VALHALLA_URL_FALLBACK,  \* configuration (environment), "" when unset
    vrPc,       \* valhalla_route: "idle" | "post" | "merge" | "done"
    vrCaller,   \* valhalla_route: who called it ("none", "harness" or a user id)
    vrArgs,     \* valhalla_route: its arguments (locations, style, roundtrip, is_owner)
                \* and, as passed, the caller's list object as the call leaves it
    vrPayload,  \* valhalla_route: the payload it posts (NoPayload before it is built)
    vrUrlIdx,   \* valhalla_route: position in urls_to_try of the URL being tried
    pvStatus,   \* post_valhalla: "idle" | "running" | "returned" | "raised" (last call)
    pvTries,    \* post_valhalla: requests issued by the current (or last) call
    vrLog,      \* every HTTP request of this valhalla_route call, with its reply
    vrResp,     \* valhalla_route: resp_json (NoResp while None)
    vrResult,   \* valhalla_route: what the call returned or raised
    oracle,     \* the routing oracle: any reply, or a stub's script of replies
    USER_STATE,     \* per user: the conversation state (NoState: not in the dict)
    LAST_DOWNLOAD,  \* per user: epoch of the last delivery (0: not in the dict)
    now,        \* what now_epoch() returns, in seconds
    runPc,      \* route computation: "idle" | "route" | "done" | "crashed"
    runUid,     \* route computation: the user it runs for (0: none)
    runOutcome, \* route computation: how it ended ("none" while it has not)
    outbox,     \* what the current (or last) handler sent to Telegram, in order
    tnArgs,     \* tune harness: the arguments of tune_roundtrip_length
    tnOut,      \* tune harness: NotTuned or what tune_roundtrip_length returned
    AUTHORIZED, \* the set of authorized user ids
    PENDING,    \* the set of user ids whose access request is pending
    update,     \* the last update the webhook handled (NoUpdate before the first)
    handled,    \* the number of updates the webhook has handled
    threads     \* the request threads that are inside parse_location_from_message

decVars == <<decSrc, decPts, decIn, decOut>>
mgVars == <<mgTrip, mgOut>>
cfgVars == <<VALHALLA_URL, VALHALLA_URL_FALLBACK>>
vrVars == <<vrPc, vrCaller, vrArgs, vrPayload, vrUrlIdx, pvStatus, pvTries, vrLog,
            vrResp, vrResult>>
runVars == <<USER_STATE, LAST_DOWNLOAD, now, runPc, runUid, runOutcome, outbox>>
tnVars == <<tnArgs, tnOut>>
botVars == <<AUTHORIZED, PENDING, update, handled, threads>>
vars == <<decVars, mgVars, cfgVars, vrVars, oracle, runVars, tnVars, botVars>>

(***************************************************************************)
(* Bit operations on naturals, as Python's |, & and << compute them.       *)
(***************************************************************************)
RECURSIVE BitOr(_, _)
BitOr(a, b) ==
    IF a = 0 THEN b
    ELSE IF b = 0 THEN a
    ELSE (IF (a % 2 = 1) \/ (b % 2 = 1) THEN 1 ELSE 0) + 2 * BitOr(a \div 2, b \div 2)

RECURSIVE ShiftLeft(_, _)
ShiftLeft(a, n) == IF n = 0 THEN a ELSE ShiftLeft(2 * a, n - 1)

\* b & 0x1f; for a negative b Python's & works on the two's complement, which is b mod 32
Low5(b) == b % 32

\* ~(result >> 1) if (result & 1) else (result >> 1)          (src line 212)
ZigZagDecode_noinvert(result) ==
    IF result % 2 = 1 THEN -(result \div 2) ELSE result \div 2

ZigZagDecode(result) ==
    IF result % 2 = 1 THEN -(result \div 2) - 1 ELSE result \div 2

(***************************************************************************)
(* decode_polyline6 (src lines 199-216).                                   *)
(* ReadValue is the inner `while True` loop: it reads 5-bit groups until   *)
(* a character with b < 0x20.  polyline_str[index] with index = len        *)
(* raises IndexError, which nothing in decode_polyline6 catches.           *)
(***************************************************************************)
RECURSIVE ReadValue_stop(_, _, _, _)
ReadValue_stop(s, index, shift, result) ==
    IF index >= Len(s)
    THEN [err |-> FALSE, index |-> index, result |-> result]
    ELSE LET b == s[index + 1] - 63
             r == BitOr(result, ShiftLeft(Low5(b), shift))
         IN  IF b < 32
             THEN [err |-> FALSE, index |-> index + 1, result |-> r]
             ELSE ReadValue_stop(s, index + 1, shift + 5, r)

RECURSIVE ReadValue(_, _, _, _)
ReadValue(s, index, shift, result) ==
    IF index >= Len(s)
    THEN [err |-> TRUE, index |-> index, result |-> result]
    ELSE LET b == s[index + 1] - 63
             r == BitOr(result, ShiftLeft(Low5(b), shift))
         IN  IF b < 32
             THEN [err |-> FALSE, index |-> index + 1, result |-> r]
             ELSE ReadValue(s, index + 1, shift + 5, r)

IndexError == [err |-> "IndexError", coords |-> <<>>, index |-> -1]

\* the harness has not called the decoder yet
NotDecoded == [err |-> "pending", coords |-> <<>>, index |-> -1]

RECURSIVE DecodeFrom(_, _, _, _, _)
DecodeFrom(s, index, lat, lng, coords) ==
    IF index >= Len(s)
    THEN [err |-> "none", coords |-> coords, index |-> index]
    ELSE LET a == ReadValue(s, index, 0, 0)
         IN  IF a.err THEN IndexError
             ELSE LET o == ReadValue(s, a.index, 0, 0)
                  IN  IF o.err THEN IndexError
                      ELSE LET lat2 == lat + ZigZagDecode(a.result)
                               lng2 == lng + ZigZagDecode(o.result)
                           IN  DecodeFrom(s, o.index, lat2, lng2,
                                          Append(coords, <<lat2, lng2>>))

decode_polyline6(polyline_str) == DecodeFrom(polyline_str, 0, 0, 0, <<>>)

(***************************************************************************)
(* The precision-6 encoder the round-trip law is stated against: per       *)
(* coordinate the delta to the previous point, zig-zag sign packing,       *)
(* 5-bit groups, continuation bit 0x20, bias 63.  It is not part of the    *)
(* repository; it is the harness side of the law.                          *)
(***************************************************************************)
ZigZagEncode(d) == IF d >= 0 THEN 2 * d ELSE -(2 * d) - 1

RECURSIVE EncodeValue(_)
EncodeValue(v) ==
    IF v >= 32 THEN <<(32 + (v % 32)) + 63>> \o EncodeValue(v \div 32)
    ELSE <<v + 63>>

RECURSIVE EncodeFrom(_, _, _)
EncodeFrom(pts, lat, lng) ==
    IF pts = <<>> THEN <<>>
    ELSE LET p == Head(pts)
         IN  EncodeValue(ZigZagEncode(p[1] - lat)) \o
             EncodeValue(ZigZagEncode(p[2] - lng)) \o
             EncodeFrom(Tail(pts), p[1], p[2])

encode_polyline6(pts) == EncodeFrom(pts, 0, 0)

(***************************************************************************)
(* The multi-leg merge of valhalla_route (src lines 531-557).              *)
(* A trip is [legs |-> <<leg, ...>>]; a leg is                             *)
(*   [shape, length, time, maneuvers]                                      *)
(* with length in metres (summary.length is in km), time in seconds and    *)
(* maneuvers a sequence of [instruction, begin_shape_index].               *)
(* total_km and total_min are kept in tenths (round(x, 1)).                *)
(***************************************************************************)
\* round(total_km, 1), in tenths of a km, of a length in metres
RoundKm1(m) == (m + 50) \div 100
\* round(total_min, 1), in tenths of a minute, of a time in seconds
RoundMin1(sec) == (sec + 3) \div 6

\* for m in leg.get("maneuvers", []) ... (src lines 546-555); coords is the
\* merged list as it stands once this leg's shape has been appended
RECURSIVE LegManeuvers(_, _, _)
LegManeuvers(ms, coords, out) ==
    IF ms = <<>> THEN out
    ELSE LET m == Head(ms)
             idx == m.begin_shape_index
         IN  IF 0 <= idx /\ idx < Len(coords)
             THEN LegManeuvers(Tail(ms), coords,
                      Append(out, [instruction |-> m.instruction,
                                   lat |-> coords[idx + 1][1],
                                   lon |-> coords[idx + 1][2]]))
             ELSE LegManeuvers(Tail(ms), coords, out)

MergeError(e) ==
    [err |-> e, coords |-> <<>>, total_km |-> 0, total_min |-> 0, maneuvers |-> <<>>]

NotMerged == MergeError("pending")

\* for leg in trip.get("legs", []) ... (src lines 537-555)
RECURSIVE MergeLegs(_, _, _, _, _)
MergeLegs(legs, coords, m, sec, out) ==
    IF legs = <<>>
    THEN [err |-> "none", coords |-> coords, total_km |-> RoundKm1(m),
          total_min |-> RoundMin1(sec), maneuvers |-> out]
    ELSE LET leg == Head(legs)
             d == IF leg.shape # <<>> THEN decode_polyline6(leg.shape)
                  ELSE [err |-> "none", coords |-> <<>>, index |-> 0]
         IN  IF d.err # "none" THEN MergeError(d.err)
             ELSE LET coords2 == coords \o d.coords
                  IN  MergeLegs(Tail(legs), coords2, m + leg.length, sec + leg.time,
                                LegManeuvers(leg.maneuvers, coords2, out))

\* src lines 531-557: the tuple valhalla_route returns, or the exception it lets through
MergeTrip(trip) == MergeLegs(trip.legs, <<>>, 0, 0, <<>>)

(***************************************************************************)
(* Geodesy (src lines 64-85, 227-245).  haversine_km and offset_point are  *)
(* floating-point trigonometry; on the points of the model they are the    *)
(* tables below, computed with the source's own functions: distances in    *)
(* metres (rounded), projected points in micro-degrees (rounded), the km   *)
(* argument of offset_point in tenths of a km.                             *)
(***************************************************************************)
HaversineTable ==
    (<<<<44789559, 9000000>>, <<45000000, 9000000>>>> :> 23400) @@
    (<<<<44805747, 9000000>>, <<45000000, 9000000>>>> :> 21600) @@
    (<<<<44821934, 9000000>>, <<45000000, 9000000>>>> :> 19800) @@
    (<<<<44834424, 9233151>>, <<44851003, 8790104>>>> :> 34979) @@
    (<<<<44838122, 9000000>>, <<45000000, 9000000>>>> :> 18000) @@
    (<<<<44847178, 9215264>>, <<44862478, 8806211>>>> :> 32289) @@
    (<<<<44851003, 8790104>>, <<45000000, 9000000>>>> :> 23400) @@
    (<<<<44854310, 9000000>>, <<45000000, 9000000>>>> :> 16200) @@
    (<<<<44859928, 9197369>>, <<44873951, 8822325>>>> :> 29598) @@
    (<<<<44862478, 8806211>>, <<45000000, 9000000>>>> :> 21600) @@
    (<<<<44872676, 9179466>>, <<44885421, 8838445>>>> :> 26907) @@
    (<<<<44873951, 8822325>>, <<45000000, 9000000>>>> :> 19800) @@
    (<<<<44885421, 8838445>>, <<45000000, 9000000>>>> :> 18000) @@
    (<<<<44885421, 9161555>>, <<44896889, 8854571>>>> :> 24217) @@
    (<<<<44889559, 9000000>>, <<45100000, 9000000>>>> :> 23400) @@
    (<<<<44896889, 8854571>>, <<45000000, 9000000>>>> :> 16200) @@
    (<<<<44905747, 9000000>>, <<45100000, 9000000>>>> :> 21600) @@
    (<<<<44921934, 9000000>>, <<45100000, 9000000>>>> :> 19800) @@
    (<<<<44934423, 9233556>>, <<44951002, 8789738>>>> :> 34979) @@
    (<<<<44938122, 9000000>>, <<45100000, 9000000>>>> :> 18000) @@
    (<<<<44947177, 9215638>>, <<44962477, 8805874>>>> :> 32289) @@
    (<<<<44951002, 8789738>>, <<45100000, 9000000>>>> :> 23400) @@
    (<<<<44954310, 9000000>>, <<45100000, 9000000>>>> :> 16200) @@
    (<<<<44959928, 9197713>>, <<44973950, 8822015>>>> :> 29598) @@
    (<<<<44962477, 8805874>>, <<45100000, 9000000>>>> :> 21600) @@
    (<<<<44972675, 9179779>>, <<44985421, 8838163>>>> :> 26907) @@
    (<<<<44973950, 8822015>>, <<45100000, 9000000>>>> :> 19800) @@
    (<<<<44985421, 8838163>>, <<45100000, 9000000>>>> :> 18000) @@
    (<<<<44985421, 9161837>>, <<44996889, 8854318>>>> :> 24217) @@
    (<<<<44996889, 8854318>>, <<45100000, 9000000>>>> :> 16200) @@
    (<<<<44999523, 9330675>>, <<44789559, 9000000>>>> :> 34979) @@
    (<<<<44999593, 9305238>>, <<44805747, 9000000>>>> :> 32289) @@
    (<<<<44999658, 9279802>>, <<44821934, 9000000>>>> :> 29598) @@
    (<<<<44999718, 9254366>>, <<44838122, 9000000>>>> :> 26907) @@
    (<<<<44999771, 9228929>>, <<44854310, 9000000>>>> :> 24216) @@
    (<<<<45000000, 9000000>>, <<44834424, 9233151>>>> :> 26000) @@
    (<<<<45000000, 9000000>>, <<44847178, 9215264>>>> :> 24000) @@
    (<<<<45000000, 9000000>>, <<44859928, 9197369>>>> :> 22000) @@
    (<<<<45000000, 9000000>>, <<44872676, 9179466>>>> :> 20000) @@
    (<<<<45000000, 9000000>>, <<44885421, 9161555>>>> :> 18000) @@
    (<<<<45000000, 9000000>>, <<44999523, 9330675>>>> :> 26000) @@
    (<<<<45000000, 9000000>>, <<44999593, 9305238>>>> :> 24000) @@
    (<<<<45000000, 9000000>>, <<44999658, 9279802>>>> :> 22000) @@
    (<<<<45000000, 9000000>>, <<44999718, 9254366>>>> :> 20000) @@
    (<<<<45000000, 9000000>>, <<44999771, 9228929>>>> :> 18000) @@
    (<<<<45000000, 9000000>>, <<45000000, 9000000>>>> :> 0) @@
    (<<<<45000000, 9000000>>, <<45100000, 9000000>>>> :> 11119) @@
    (<<<<45000000, 9000000>>, <<45114350, 8837798>>>> :> 18000) @@
    (<<<<45000000, 9000000>>, <<45127042, 8819736>>>> :> 20000) @@
    (<<<<45000000, 9000000>>, <<45139730, 8801665>>>> :> 22000) @@
    (<<<<45000000, 9000000>>, <<45152416, 8783586>>>> :> 24000) @@
    (<<<<45000000, 9000000>>, <<45165099, 8765500>>>> :> 26000) @@
    (<<<<45000000, 9000000>>, <<45500000, 9300000>>>> :> 60354) @@
    (<<<<45000000, 9000000>>, <<46300000, 9000000>>>> :> 144553) @@
    (<<<<45099521, 9331253>>, <<44889559, 9000000>>>> :> 34979) @@
    (<<<<45099592, 9305773>>, <<44905747, 9000000>>>> :> 32289) @@
    (<<<<45099657, 9280292>>, <<44921934, 9000000>>>> :> 29598) @@
    (<<<<45099717, 9254811>>, <<44938122, 9000000>>>> :> 26907) @@
    (<<<<45099771, 9229330>>, <<44954310, 9000000>>>> :> 24217) @@
    (<<<<45100000, 9000000>>, <<44934423, 9233556>>>> :> 26000) @@
    (<<<<45100000, 9000000>>, <<44947177, 9215638>>>> :> 24000) @@
    (<<<<45100000, 9000000>>, <<44959928, 9197713>>>> :> 22000) @@
    (<<<<45100000, 9000000>>, <<44972675, 9179779>>>> :> 20000) @@
    (<<<<45100000, 9000000>>, <<44985421, 9161837>>>> :> 18000) @@
    (<<<<45100000, 9000000>>, <<45000000, 9000000>>>> :> 11119) @@
    (<<<<45100000, 9000000>>, <<45099521, 9331253>>>> :> 26000) @@
    (<<<<45100000, 9000000>>, <<45099592, 9305773>>>> :> 24000) @@
    (<<<<45100000, 9000000>>, <<45099657, 9280292>>>> :> 22000) @@
    (<<<<45100000, 9000000>>, <<45099717, 9254811>>>> :> 20000) @@
    (<<<<45100000, 9000000>>, <<45099771, 9229330>>>> :> 18000) @@
    (<<<<45100000, 9000000>>, <<45100000, 9000000>>>> :> 0) @@
    (<<<<45100000, 9000000>>, <<45214350, 8837513>>>> :> 18000) @@
    (<<<<45100000, 9000000>>, <<45227041, 8819419>>>> :> 20000) @@
    (<<<<45100000, 9000000>>, <<45239730, 8801316>>>> :> 22000) @@
    (<<<<45100000, 9000000>>, <<45252415, 8783206>>>> :> 24000) @@
    (<<<<45100000, 9000000>>, <<45265098, 8765087>>>> :> 26000) @@
    (<<<<45100000, 9000000>>, <<45500000, 9300000>>>> :> 50288) @@
    (<<<<45100000, 9000000>>, <<46300000, 9000000>>>> :> 133434) @@
    (<<<<45102926, 9145953>>, <<45000000, 9000000>>>> :> 16200) @@
    (<<<<45114350, 8837798>>, <<45102926, 9145953>>>> :> 24217) @@
    (<<<<45114350, 9162202>>, <<45000000, 9000000>>>> :> 18000) @@
    (<<<<45125773, 9178458>>, <<45000000, 9000000>>>> :> 19800) @@
    (<<<<45127042, 8819736>>, <<45114350, 9162202>>>> :> 26907) @@
    (<<<<45137193, 9194720>>, <<45000000, 9000000>>>> :> 21600) @@
    (<<<<45139730, 8801665>>, <<45125773, 9178458>>>> :> 29598) @@
    (<<<<45148611, 9210989>>, <<45000000, 9000000>>>> :> 23400) @@
    (<<<<45152416, 8783586>>, <<45137193, 9194720>>>> :> 32289) @@
    (<<<<45165099, 8765500>>, <<45148611, 9210989>>>> :> 34979) @@
    (<<<<45202925, 9146209>>, <<45100000, 9000000>>>> :> 16200) @@
    (<<<<45214350, 8837513>>, <<45202925, 9146209>>>> :> 24217) @@
    (<<<<45214350, 9162487>>, <<45100000, 9000000>>>> :> 18000) @@
    (<<<<45225772, 9178772>>, <<45100000, 9000000>>>> :> 19800) @@
    (<<<<45227041, 8819419>>, <<45214350, 9162487>>>> :> 26907) @@
    (<<<<45237192, 9195063>>, <<45100000, 9000000>>>> :> 21600) @@
    (<<<<45239730, 8801316>>, <<45225772, 9178772>>>> :> 29598) @@
    (<<<<45248610, 9211360>>, <<45100000, 9000000>>>> :> 23400) @@
    (<<<<45252415, 8783206>>, <<45237192, 9195063>>>> :> 32289) @@
    (<<<<45265098, 8765087>>, <<45248610, 9211360>>>> :> 34979) @@
    (<<<<45289559, 9300000>>, <<45500000, 9300000>>>> :> 23400) @@
    (<<<<45305747, 9300000>>, <<45500000, 9300000>>>> :> 21600) @@
    (<<<<45321934, 9300000>>, <<45500000, 9300000>>>> :> 19800) @@
    (<<<<45334420, 9535200>>, <<45351000, 9088258>>>> :> 34979) @@
    (<<<<45338122, 9300000>>, <<45500000, 9300000>>>> :> 18000) @@
    (<<<<45347174, 9517157>>, <<45362475, 9104506>>>> :> 32289) @@
    (<<<<45351000, 9088258>>, <<45500000, 9300000>>>> :> 23400) @@
    (<<<<45354310, 9300000>>, <<45500000, 9300000>>>> :> 16200) @@
    (<<<<45359925, 9499105>>, <<45373948, 9120761>>>> :> 29598) @@
    (<<<<45362475, 9104506>>, <<45500000, 9300000>>>> :> 21600) @@
    (<<<<45372674, 9481046>>, <<45385419, 9137022>>>> :> 26907) @@
    (<<<<45373948, 9120761>>, <<45500000, 9300000>>>> :> 19800) @@
    (<<<<45385419, 9137022>>, <<45500000, 9300000>>>> :> 18000) @@
    (<<<<45385419, 9462978>>, <<45396888, 9153290>>>> :> 24217) @@
    (<<<<45396888, 9153290>>, <<45500000, 9300000>>>> :> 16200) @@
    (<<<<45499514, 9633598>>, <<45289559, 9300000>>>> :> 34979) @@
    (<<<<45499586, 9607937>>, <<45305747, 9300000>>>> :> 32289) @@
    (<<<<45499652, 9582276>>, <<45321934, 9300000>>>> :> 29598) @@
    (<<<<45499713, 9556615>>, <<45338122, 9300000>>>> :> 26907) @@
    (<<<<45499767, 9530953>>, <<45354310, 9300000>>>> :> 24216) @@
    (<<<<45500000, 9300000>>, <<45000000, 9000000>>>> :> 60354) @@
    (<<<<45500000, 9300000>>, <<45100000, 9000000>>>> :> 50288) @@
    (<<<<45500000, 9300000>>, <<45334420, 9535200>>>> :> 26000) @@
    (<<<<45500000, 9300000>>, <<45347174, 9517157>>>> :> 24000) @@
    (<<<<45500000, 9300000>>, <<45359925, 9499105>>>> :> 22000) @@
    (<<<<45500000, 9300000>>, <<45372674, 9481046>>>> :> 20000) @@
    (<<<<45500000, 9300000>>, <<45385419, 9462978>>>> :> 18000) @@
    (<<<<45500000, 9300000>>, <<45499514, 9633598>>>> :> 26000) @@
    (<<<<45500000, 9300000>>, <<45499586, 9607937>>>> :> 24000) @@
    (<<<<45500000, 9300000>>, <<45499652, 9582276>>>> :> 22000) @@
    (<<<<45500000, 9300000>>, <<45499713, 9556615>>>> :> 20000) @@
    (<<<<45500000, 9300000>>, <<45499767, 9530953>>>> :> 18000) @@
    (<<<<45500000, 9300000>>, <<45500000, 9300000>>>> :> 0) @@
    (<<<<45500000, 9300000>>, <<45614348, 9136358>>>> :> 18000) @@
    (<<<<45500000, 9300000>>, <<45627039, 9118135>>>> :> 20000) @@
    (<<<<45500000, 9300000>>, <<45639727, 9099903>>>> :> 22000) @@
    (<<<<45500000, 9300000>>, <<45652412, 9081663>>>> :> 24000) @@
    (<<<<45500000, 9300000>>, <<45665095, 9063414>>>> :> 26000) @@
    (<<<<45500000, 9300000>>, <<46300000, 9000000>>>> :> 91935) @@
    (<<<<45602924, 9447248>>, <<45500000, 9300000>>>> :> 16200) @@
    (<<<<45614348, 9136358>>, <<45602924, 9447248>>>> :> 24217) @@
    (<<<<45614348, 9463642>>, <<45500000, 9300000>>>> :> 18000) @@
    (<<<<45625770, 9480043>>, <<45500000, 9300000>>>> :> 19800) @@
    (<<<<45627039, 9118135>>, <<45614348, 9463642>>>> :> 26907) @@
    (<<<<45637190, 9496450>>, <<45500000, 9300000>>>> :> 21600) @@
    (<<<<45639727, 9099903>>, <<45625770, 9480043>>>> :> 29598) @@
    (<<<<45648607, 9512865>>, <<45500000, 9300000>>>> :> 23400) @@
    (<<<<45652412, 9081663>>, <<45637190, 9496450>>>> :> 32289) @@
    (<<<<45665095, 9063414>>, <<45648607, 9512865>>>> :> 34979) @@
    (<<<<46089559, 9000000>>, <<46300000, 9000000>>>> :> 23400) @@
    (<<<<46105747, 9000000>>, <<46300000, 9000000>>>> :> 21600) @@
    (<<<<46121934, 9000000>>, <<46300000, 9000000>>>> :> 19800) @@
    (<<<<46134413, 9238594>>, <<46150994, 8785201>>>> :> 34979) @@
    (<<<<46138122, 9000000>>, <<46300000, 9000000>>>> :> 18000) @@
    (<<<<46147168, 9220292>>, <<46162470, 8801682>>>> :> 32289) @@
    (<<<<46150994, 8785201>>, <<46300000, 9000000>>>> :> 23400) @@
    (<<<<46154310, 9000000>>, <<46300000, 9000000>>>> :> 16200) @@
    (<<<<46159920, 9201981>>, <<46173944, 8818171>>>> :> 29598) @@
    (<<<<46162470, 8801682>>, <<46300000, 9000000>>>> :> 21600) @@
    (<<<<46172669, 9183662>>, <<46185416, 8834666>>>> :> 26907) @@
    (<<<<46173944, 8818171>>, <<46300000, 9000000>>>> :> 19800) @@
    (<<<<46185416, 8834666>>, <<46300000, 9000000>>>> :> 18000) @@
    (<<<<46185416, 9165334>>, <<46196885, 8851169>>>> :> 24217) @@
    (<<<<46196885, 8851169>>, <<46300000, 9000000>>>> :> 16200) @@
    (<<<<46299501, 9338440>>, <<46089559, 9000000>>>> :> 34979) @@
    (<<<<46299575, 9312406>>, <<46105747, 9000000>>>> :> 32289) @@
    (<<<<46299643, 9286373>>, <<46121934, 9000000>>>> :> 29598) @@
    (<<<<46299705, 9260339>>, <<46138122, 9000000>>>> :> 26907) @@
    (<<<<46299761, 9234305>>, <<46154310, 9000000>>>> :> 24217) @@
    (<<<<46300000, 9000000>>, <<45000000, 9000000>>>> :> 144553) @@
    (<<<<46300000, 9000000>>, <<45100000, 9000000>>>> :> 133434) @@
    (<<<<46300000, 9000000>>, <<45500000, 9300000>>>> :> 91935) @@
    (<<<<46300000, 9000000>>, <<46134413, 9238594>>>> :> 26000) @@
    (<<<<46300000, 9000000>>, <<46147168, 9220292>>>> :> 24000) @@
    (<<<<46300000, 9000000>>, <<46159920, 9201981>>>> :> 22000) @@
    (<<<<46300000, 9000000>>, <<46172669, 9183662>>>> :> 20000) @@
    (<<<<46300000, 9000000>>, <<46185416, 9165334>>>> :> 18000) @@
    (<<<<46300000, 9000000>>, <<46299501, 9338440>>>> :> 26000) @@
    (<<<<46300000, 9000000>>, <<46299575, 9312406>>>> :> 24000) @@
    (<<<<46300000, 9000000>>, <<46299643, 9286373>>>> :> 22000) @@
    (<<<<46300000, 9000000>>, <<46299705, 9260339>>>> :> 20000) @@
    (<<<<46300000, 9000000>>, <<46299761, 9234305>>>> :> 18000) @@
    (<<<<46300000, 9000000>>, <<46300000, 9000000>>>> :> 0) @@
    (<<<<46300000, 9000000>>, <<46414345, 8833974>>>> :> 18000) @@
    (<<<<46300000, 9000000>>, <<46427035, 8815483>>>> :> 20000) @@
    (<<<<46300000, 9000000>>, <<46439722, 8796984>>>> :> 22000) @@
    (<<<<46300000, 9000000>>, <<46452406, 8778477>>>> :> 24000) @@
    (<<<<46300000, 9000000>>, <<46465088, 8759961>>>> :> 26000) @@
    (<<<<46402921, 9149392>>, <<46300000, 9000000>>>> :> 16200) @@
    (<<<<46414345, 8833974>>, <<46402921, 9149392>>>> :> 24216) @@
    (<<<<46414345, 9166026>>, <<46300000, 9000000>>>> :> 18000) @@
    (<<<<46425766, 9182667>>, <<46300000, 9000000>>>> :> 19800) @@
    (<<<<46427035, 8815483>>, <<46414345, 9166026>>>> :> 26907) @@
    (<<<<46437185, 9199315>>, <<46300000, 9000000>>>> :> 21600) @@
    (<<<<46439722, 8796984>>, <<46425766, 9182667>>>> :> 29598) @@
    (<<<<46448602, 9215970>>, <<46300000, 9000000>>>> :> 23400) @@
    (<<<<46452406, 8778477>>, <<46437185, 9199315>>>> :> 32289) @@
    (<<<<46465088, 8759961>>, <<46448602, 9215970>>>> :> 34979)

OffsetTable ==
    (<<45000000, 9000000, 162, 45>> :> <<45102926, 9145953>>) @@
    (<<45000000, 9000000, 162, 180>> :> <<44854310, 9000000>>) @@
    (<<45000000, 9000000, 162, 225>> :> <<44896889, 8854571>>) @@
    (<<45000000, 9000000, 180, 0>> :> <<45161878, 9000000>>) @@
    (<<45000000, 9000000, 180, 5>> :> <<45161260, 9020009>>) @@
    (<<45000000, 9000000, 180, 40>> :> <<45123911, 9147473>>) @@
    (<<45000000, 9000000, 180, 45>> :> <<45114350, 9162202>>) @@
    (<<45000000, 9000000, 180, 85>> :> <<45013882, 9228114>>) @@
    (<<45000000, 9000000, 180, 90>> :> <<44999771, 9228929>>) @@
    (<<45000000, 9000000, 180, 135>> :> <<44885421, 9161555>>) @@
    (<<45000000, 9000000, 180, 180>> :> <<44838122, 9000000>>) @@
    (<<45000000, 9000000, 180, 185>> :> <<44838736, 8980103>>) @@
    (<<45000000, 9000000, 180, 225>> :> <<44885421, 8838445>>) @@
    (<<45000000, 9000000, 180, 265>> :> <<44985665, 8771998>>) @@
    (<<45000000, 9000000, 180, 315>> :> <<45114350, 8837798>>) @@
    (<<45000000, 9000000, 180, 320>> :> <<45123911, 8852527>>) @@
    (<<45000000, 9000000, 198, 45>> :> <<45125773, 9178458>>) @@
    (<<45000000, 9000000, 198, 180>> :> <<44821934, 9000000>>) @@
    (<<45000000, 9000000, 198, 225>> :> <<44873951, 8822325>>) @@
    (<<45000000, 9000000, 200, 0>> :> <<45179864, 9000000>>) @@
    (<<45000000, 9000000, 200, 5>> :> <<45179178, 9022239>>) @@
    (<<45000000, 9000000, 200, 40>> :> <<45137667, 9163898>>) @@
    (<<45000000, 9000000, 200, 45>> :> <<45127042, 9180264>>) @@
    (<<45000000, 9000000, 200, 85>> :> <<45015396, 9253467>>) @@
    (<<45000000, 9000000, 200, 90>> :> <<44999718, 9254366>>) @@
    (<<45000000, 9000000, 200, 135>> :> <<44872676, 9179466>>) @@
    (<<45000000, 9000000, 200, 185>> :> <<44820818, 8977900>>) @@
    (<<45000000, 9000000, 200, 225>> :> <<44872676, 8820534>>) @@
    (<<45000000, 9000000, 200, 265>> :> <<44984044, 8746672>>) @@
    (<<45000000, 9000000, 200, 315>> :> <<45127042, 8819736>>) @@
    (<<45000000, 9000000, 200, 320>> :> <<45137667, 8836102>>) @@
    (<<45000000, 9000000, 216, 45>> :> <<45137193, 9194720>>) @@
    (<<45000000, 9000000, 216, 180>> :> <<44805747, 9000000>>) @@
    (<<45000000, 9000000, 216, 225>> :> <<44862478, 8806211>>) @@
    (<<45000000, 9000000, 220, 0>> :> <<45197851, 9000000>>) @@
    (<<45000000, 9000000, 220, 5>> :> <<45197095, 9024471>>) @@
    (<<45000000, 9000000, 220, 40>> :> <<45151421, 9180331>>) @@
    (<<45000000, 9000000, 220, 45>> :> <<45139730, 9198335>>) @@
    (<<45000000, 9000000, 220, 85>> :> <<45016905, 9278821>>) @@
    (<<45000000, 9000000, 220, 90>> :> <<44999658, 9279802>>) @@
    (<<45000000, 9000000, 220, 135>> :> <<44859928, 9197369>>) @@
    (<<45000000, 9000000, 220, 185>> :> <<44802900, 8975697>>) @@
    (<<45000000, 9000000, 220, 225>> :> <<44859928, 8802631>>) @@
    (<<45000000, 9000000, 220, 265>> :> <<44982417, 8721346>>) @@
    (<<45000000, 9000000, 220, 315>> :> <<45139730, 8801665>>) @@
    (<<45000000, 9000000, 220, 320>> :> <<45151421, 8819669>>) @@
    (<<45000000, 9000000, 234, 45>> :> <<45148611, 9210989>>) @@
    (<<45000000, 9000000, 234, 180>> :> <<44789559, 9000000>>) @@
    (<<45000000, 9000000, 234, 225>> :> <<44851003, 8790104>>) @@
    (<<45000000, 9000000, 240, 0>> :> <<45215837, 9000000>>) @@
    (<<45000000, 9000000, 240, 5>> :> <<45215013, 9026704>>) @@
    (<<45000000, 9000000, 240, 40>> :> <<45165172, 9196772>>) @@
    (<<45000000, 9000000, 240, 45>> :> <<45152416, 9216414>>) @@
    (<<45000000, 9000000, 240, 85>> :> <<45018408, 9304177>>) @@
    (<<45000000, 9000000, 240, 90>> :> <<44999593, 9305238>>) @@
    (<<45000000, 9000000, 240, 135>> :> <<44847178, 9215264>>) @@
    (<<45000000, 9000000, 240, 185>> :> <<44784981, 8973496>>) @@
    (<<45000000, 9000000, 240, 225>> :> <<44847178, 8784736>>) @@
    (<<45000000, 9000000, 240, 265>> :> <<44980785, 8696023>>) @@
    (<<45000000, 9000000, 240, 315>> :> <<45152416, 8783586>>) @@
    (<<45000000, 9000000, 240, 320>> :> <<45165172, 8803228>>) @@
    (<<45000000, 9000000, 260, 0>> :> <<45233824, 9000000>>) @@
    (<<45000000, 9000000, 260, 5>> :> <<45232930, 9028938>>) @@
    (<<45000000, 9000000, 260, 40>> :> <<45178921, 9213222>>) @@
    (<<45000000, 9000000, 260, 45>> :> <<45165099, 9234500>>) @@
    (<<45000000, 9000000, 260, 85>> :> <<45019905, 9329534>>) @@
    (<<45000000, 9000000, 260, 90>> :> <<44999523, 9330675>>) @@
    (<<45000000, 9000000, 260, 135>> :> <<44834424, 9233151>>) @@
    (<<45000000, 9000000, 260, 185>> :> <<44767063, 8971296>>) @@
    (<<45000000, 9000000, 260, 225>> :> <<44834424, 8766849>>) @@
    (<<45000000, 9000000, 260, 265>> :> <<44979148, 8670701>>) @@
    (<<45000000, 9000000, 260, 315>> :> <<45165099, 8765500>>) @@
    (<<45000000, 9000000, 260, 320>> :> <<45178921, 8786778>>) @@
    (<<45100000, 9000000, 162, 45>> :> <<45202925, 9146209>>) @@
    (<<45100000, 9000000, 162, 180>> :> <<44954310, 9000000>>) @@
    (<<45100000, 9000000, 162, 225>> :> <<44996889, 8854318>>) @@
    (<<45100000, 9000000, 180, 0>> :> <<45261878, 9000000>>) @@
    (<<45100000, 9000000, 180, 5>> :> <<45261260, 9020044>>) @@
    (<<45100000, 9000000, 180, 40>> :> <<45223911, 9147732>>) @@
    (<<45100000, 9000000, 180, 45>> :> <<45214350, 9162487>>) @@
    (<<45100000, 9000000, 180, 85>> :> <<45113881, 9228514>>) @@
    (<<45100000, 9000000, 180, 90>> :> <<45099771, 9229330>>) @@
    (<<45100000, 9000000, 180, 135>> :> <<44985421, 9161837>>) @@
    (<<45100000, 9000000, 180, 180>> :> <<44938122, 9000000>>) @@
    (<<45100000, 9000000, 180, 185>> :> <<44938736, 8980069>>) @@
    (<<45100000, 9000000, 180, 225>> :> <<44985421, 8838163>>) @@
    (<<45100000, 9000000, 180, 265>> :> <<45085664, 8771599>>) @@
    (<<45100000, 9000000, 180, 315>> :> <<45214350, 8837513>>) @@
    (<<45100000, 9000000, 180, 320>> :> <<45223911, 8852268>>) @@
    (<<45100000, 9000000, 198, 45>> :> <<45225772, 9178772>>) @@
    (<<45100000, 9000000, 198, 180>> :> <<44921934, 9000000>>) @@
    (<<45100000, 9000000, 198, 225>> :> <<44973950, 8822015>>) @@
    (<<45100000, 9000000, 200, 0>> :> <<45279864, 9000000>>) @@
    (<<45100000, 9000000, 200, 5>> :> <<45279178, 9022278>>) @@
    (<<45100000, 9000000, 200, 40>> :> <<45237667, 9164186>>) @@
    (<<45100000, 9000000, 200, 45>> :> <<45227041, 9180581>>) @@
    (<<45100000, 9000000, 200, 85>> :> <<45115395, 9253911>>) @@
    (<<45100000, 9000000, 200, 90>> :> <<45099717, 9254811>>) @@
    (<<45100000, 9000000, 200, 135>> :> <<44972675, 9179779>>) @@
    (<<45100000, 9000000, 200, 185>> :> <<44920818, 8977861>>) @@
    (<<45100000, 9000000, 200, 225>> :> <<44972675, 8820221>>) @@
    (<<45100000, 9000000, 200, 265>> :> <<45084043, 8746228>>) @@
    (<<45100000, 9000000, 200, 315>> :> <<45227041, 8819419>>) @@
    (<<45100000, 9000000, 200, 320>> :> <<45237667, 8835814>>) @@
    (<<45100000, 9000000, 216, 45>> :> <<45237192, 9195063>>) @@
    (<<45100000, 9000000, 216, 180>> :> <<44905747, 9000000>>) @@
    (<<45100000, 9000000, 216, 225>> :> <<44962477, 8805874>>) @@
    (<<45100000, 9000000, 220, 0>> :> <<45297851, 9000000>>) @@
    (<<45100000, 9000000, 220, 5>> :> <<45297095, 9024514>>) @@
    (<<45100000, 9000000, 220, 40>> :> <<45251420, 9180648>>) @@
    (<<45100000, 9000000, 220, 45>> :> <<45239730, 9198684>>) @@
    (<<45100000, 9000000, 220, 85>> :> <<45116903, 9279310>>) @@
    (<<45100000, 9000000, 220, 90>> :> <<45099657, 9280292>>) @@
    (<<45100000, 9000000, 220, 135>> :> <<44959928, 9197713>>) @@
    (<<45100000, 9000000, 220, 185>> :> <<44902900, 8975655>>) @@
    (<<45100000, 9000000, 220, 225>> :> <<44959928, 8802287>>) @@
    (<<45100000, 9000000, 220, 265>> :> <<45082416, 8720859>>) @@
    (<<45100000, 9000000, 220, 315>> :> <<45239730, 8801316>>) @@
    (<<45100000, 9000000, 220, 320>> :> <<45251420, 8819352>>) @@
    (<<45100000, 9000000, 234, 45>> :> <<45248610, 9211360>>) @@
    (<<45100000, 9000000, 234, 180>> :> <<44889559, 9000000>>) @@
    (<<45100000, 9000000, 234, 225>> :> <<44951002, 8789738>>) @@
    (<<45100000, 9000000, 240, 0>> :> <<45315837, 9000000>>) @@
    (<<45100000, 9000000, 240, 5>> :> <<45315013, 9026751>>) @@
    (<<45100000, 9000000, 240, 40>> :> <<45265172, 9197119>>) @@
    (<<45100000, 9000000, 240, 45>> :> <<45252415, 9216794>>) @@
    (<<45100000, 9000000, 240, 85>> :> <<45118406, 9304709>>) @@
    (<<45100000, 9000000, 240, 90>> :> <<45099592, 9305773>>) @@
    (<<45100000, 9000000, 240, 135>> :> <<44947177, 9215638>>) @@
    (<<45100000, 9000000, 240, 185>> :> <<44884981, 8973450>>) @@
    (<<45100000, 9000000, 240, 225>> :> <<44947177, 8784362>>) @@
    (<<45100000, 9000000, 240, 265>> :> <<45080784, 8695491>>) @@
    (<<45100000, 9000000, 240, 315>> :> <<45252415, 8783206>>) @@
    (<<45100000, 9000000, 240, 320>> :> <<45265172, 8802881>>) @@
    (<<45100000, 9000000, 260, 0>> :> <<45333824, 9000000>>) @@
    (<<45100000, 9000000, 260, 5>> :> <<45332930, 9028989>>) @@
    (<<45100000, 9000000, 260, 40>> :> <<45278921, 9213597>>) @@
    (<<45100000, 9000000, 260, 45>> :> <<45265098, 9234913>>) @@
    (<<45100000, 9000000, 260, 85>> :> <<45119904, 9330111>>) @@
    (<<45100000, 9000000, 260, 90>> :> <<45099521, 9331253>>) @@
    (<<45100000, 9000000, 260, 135>> :> <<44934423, 9233556>>) @@
    (<<45100000, 9000000, 260, 185>> :> <<44867063, 8971246>>) @@
    (<<45100000, 9000000, 260, 225>> :> <<44934423, 8766444>>) @@
    (<<45100000, 9000000, 260, 265>> :> <<45079146, 8670125>>) @@
    (<<45100000, 9000000, 260, 315>> :> <<45265098, 8765087>>) @@
    (<<45100000, 9000000, 260, 320>> :> <<45278921, 8786403>>) @@
    (<<45500000, 9300000, 162, 45>> :> <<45602924, 9447248>>) @@
    (<<45500000, 9300000, 162, 180>> :> <<45354310, 9300000>>) @@
    (<<45500000, 9300000, 162, 225>> :> <<45396888, 9153290>>) @@
    (<<45500000, 9300000, 180, 0>> :> <<45661878, 9300000>>) @@
    (<<45500000, 9300000, 180, 5>> :> <<45661260, 9320187>>) @@
    (<<45500000, 9300000, 180, 40>> :> <<45623909, 9448782>>) @@
    (<<45500000, 9300000, 180, 45>> :> <<45614348, 9463642>>) @@
    (<<45500000, 9300000, 180, 85>> :> <<45513878, 9530132>>) @@
    (<<45500000, 9300000, 180, 90>> :> <<45499767, 9530953>>) @@
    (<<45500000, 9300000, 180, 135>> :> <<45385419, 9462978>>) @@
    (<<45500000, 9300000, 180, 180>> :> <<45338122, 9300000>>) @@
    (<<45500000, 9300000, 180, 185>> :> <<45338736, 9279928>>) @@
    (<<45500000, 9300000, 180, 225>> :> <<45385419, 9137022>>) @@
    (<<45500000, 9300000, 180, 265>> :> <<45485661, 9069983>>) @@
    (<<45500000, 9300000, 180, 315>> :> <<45614348, 9136358>>) @@
    (<<45500000, 9300000, 180, 320>> :> <<45623909, 9151218>>) @@
    (<<45500000, 9300000, 198, 45>> :> <<45625770, 9480043>>) @@
    (<<45500000, 9300000, 198, 180>> :> <<45321934, 9300000>>) @@
    (<<45500000, 9300000, 198, 225>> :> <<45373948, 9120761>>) @@
    (<<45500000, 9300000, 200, 0>> :> <<45679864, 9300000>>) @@
    (<<45500000, 9300000, 200, 5>> :> <<45679178, 9322437>>) @@
    (<<45500000, 9300000, 200, 40>> :> <<45637665, 9465354>>) @@
    (<<45500000, 9300000, 200, 45>> :> <<45627039, 9481865>>) @@
    (<<45500000, 9300000, 200, 85>> :> <<45515391, 9555710>>) @@
    (<<45500000, 9300000, 200, 90>> :> <<45499713, 9556615>>) @@
    (<<45500000, 9300000, 200, 135>> :> <<45372674, 9481046>>) @@
    (<<45500000, 9300000, 200, 185>> :> <<45320818, 9277705>>) @@
    (<<45500000, 9300000, 200, 225>> :> <<45372674, 9118954>>) @@
    (<<45500000, 9300000, 200, 265>> :> <<45484039, 9044433>>) @@
    (<<45500000, 9300000, 200, 315>> :> <<45627039, 9118135>>) @@
    (<<45500000, 9300000, 200, 320>> :> <<45637665, 9134646>>) @@
    (<<45500000, 9300000, 216, 45>> :> <<45637190, 9496450>>) @@
    (<<45500000, 9300000, 216, 180>> :> <<45305747, 9300000>>) @@
    (<<45500000, 9300000, 216, 225>> :> <<45362475, 9104506>>) @@
    (<<45500000, 9300000, 220, 0>> :> <<45697851, 9300000>>) @@
    (<<45500000, 9300000, 220, 5>> :> <<45697095, 9324689>>) @@
    (<<45500000, 9300000, 220, 40>> :> <<45651418, 9481934>>) @@
    (<<45500000, 9300000, 220, 45>> :> <<45639727, 9500097>>) @@
    (<<45500000, 9300000, 220, 85>> :> <<45516899, 9581288>>) @@
    (<<45500000, 9300000, 220, 90>> :> <<45499652, 9582276>>) @@
    (<<45500000, 9300000, 220, 135>> :> <<45359925, 9499105>>) @@
    (<<45500000, 9300000, 220, 185>> :> <<45302900, 9275484>>) @@
    (<<45500000, 9300000, 220, 225>> :> <<45359925, 9100895>>) @@
    (<<45500000, 9300000, 220, 265>> :> <<45482411, 9018884>>) @@
    (<<45500000, 9300000, 220, 315>> :> <<45639727, 9099903>>) @@
    (<<45500000, 9300000, 220, 320>> :> <<45651418, 9118066>>) @@
    (<<45500000, 9300000, 234, 45>> :> <<45648607, 9512865>>) @@
    (<<45500000, 9300000, 234, 180>> :> <<45289559, 9300000>>) @@
    (<<45500000, 9300000, 234, 225>> :> <<45351000, 9088258>>) @@
    (<<45500000, 9300000, 240, 0>> :> <<45715837, 9300000>>) @@
    (<<45500000, 9300000, 240, 5>> :> <<45715013, 9326942>>) @@
    (<<45500000, 9300000, 240, 40>> :> <<45665169, 9498522>>) @@
    (<<45500000, 9300000, 240, 45>> :> <<45652412, 9518337>>) @@
    (<<45500000, 9300000, 240, 85>> :> <<45518401, 9606868>>) @@
    (<<45500000, 9300000, 240, 90>> :> <<45499586, 9607937>>) @@
    (<<45500000, 9300000, 240, 135>> :> <<45347174, 9517157>>) @@
    (<<45500000, 9300000, 240, 185>> :> <<45284981, 9273263>>) @@
    (<<45500000, 9300000, 240, 225>> :> <<45347174, 9082843>>) @@
    (<<45500000, 9300000, 240, 265>> :> <<45480778, 8993337>>) @@
    (<<45500000, 9300000, 240, 315>> :> <<45652412, 9081663>>) @@
    (<<45500000, 9300000, 240, 320>> :> <<45665169, 9101478>>) @@
    (<<45500000, 9300000, 260, 0>> :> <<45733824, 9300000>>) @@
    (<<45500000, 9300000, 260, 5>> :> <<45732930, 9329196>>) @@
    (<<45500000, 9300000, 260, 40>> :> <<45678918, 9515119>>) @@
    (<<45500000, 9300000, 260, 45>> :> <<45665095, 9536586>>) @@
    (<<45500000, 9300000, 260, 85>> :> <<45519897, 9632449>>) @@
    (<<45500000, 9300000, 260, 90>> :> <<45499514, 9633598>>) @@
    (<<45500000, 9300000, 260, 135>> :> <<45334420, 9535200>>) @@
    (<<45500000, 9300000, 260, 185>> :> <<45267062, 9271044>>) @@
    (<<45500000, 9300000, 260, 225>> :> <<45334420, 9064800>>) @@
    (<<45500000, 9300000, 260, 265>> :> <<45479139, 8967791>>) @@
    (<<45500000, 9300000, 260, 315>> :> <<45665095, 9063414>>) @@
    (<<45500000, 9300000, 260, 320>> :> <<45678918, 9084881>>) @@
    (<<46300000, 9000000, 162, 45>> :> <<46402921, 9149392>>) @@
    (<<46300000, 9000000, 162, 180>> :> <<46154310, 9000000>>) @@
    (<<46300000, 9000000, 162, 225>> :> <<46196885, 8851169>>) @@
    (<<46300000, 9000000, 180, 0>> :> <<46461878, 9000000>>) @@
    (<<46300000, 9000000, 180, 5>> :> <<46461260, 9020481>>) @@
    (<<46300000, 9000000, 180, 40>> :> <<46423906, 9150951>>) @@
    (<<46300000, 9000000, 180, 45>> :> <<46414345, 9166026>>) @@
    (<<46300000, 9000000, 180, 85>> :> <<46313871, 9233474>>) @@
    (<<46300000, 9000000, 180, 90>> :> <<46299761, 9234305>>) @@
    (<<46300000, 9000000, 180, 135>> :> <<46185416, 9165334>>) @@
    (<<46300000, 9000000, 180, 180>> :> <<46138122, 9000000>>) @@
    (<<46300000, 9000000, 180, 185>> :> <<46138736, 8979639>>) @@
    (<<46300000, 9000000, 180, 225>> :> <<46185416, 8834666>>) @@
    (<<46300000, 9000000, 180, 265>> :> <<46285654, 8766646>>) @@
    (<<46300000, 9000000, 180, 315>> :> <<46414345, 8833974>>) @@
    (<<46300000, 9000000, 180, 320>> :> <<46423906, 8849049>>) @@
    (<<46300000, 9000000, 198, 45>> :> <<46425766, 9182667>>) @@
    (<<46300000, 9000000, 198, 180>> :> <<46121934, 9000000>>) @@
    (<<46300000, 9000000, 198, 225>> :> <<46173944, 8818171>>) @@
    (<<46300000, 9000000, 200, 0>> :> <<46479864, 9000000>>) @@
    (<<46300000, 9000000, 200, 5>> :> <<46479178, 9022765>>) @@
    (<<46300000, 9000000, 200, 40>> :> <<46437662, 9167766>>) @@
    (<<46300000, 9000000, 200, 45>> :> <<46427035, 9184517>>) @@
    (<<46300000, 9000000, 200, 85>> :> <<46315383, 9259423>>) @@
    (<<46300000, 9000000, 200, 90>> :> <<46299705, 9260339>>) @@
    (<<46300000, 9000000, 200, 135>> :> <<46172669, 9183662>>) @@
    (<<46300000, 9000000, 200, 185>> :> <<46120818, 8977384>>) @@
    (<<46300000, 9000000, 200, 225>> :> <<46172669, 8816338>>) @@
    (<<46300000, 9000000, 200, 265>> :> <<46284031, 8740726>>) @@
    (<<46300000, 9000000, 200, 315>> :> <<46427035, 8815483>>) @@
    (<<46300000, 9000000, 200, 320>> :> <<46437662, 8832234>>) @@
    (<<46300000, 9000000, 216, 45>> :> <<46437185, 9199315>>) @@
    (<<46300000, 9000000, 216, 180>> :> <<46105747, 9000000>>) @@
    (<<46300000, 9000000, 216, 225>> :> <<46162470, 8801682>>) @@
    (<<46300000, 9000000, 220, 0>> :> <<46497851, 9000000>>) @@
    (<<46300000, 9000000, 220, 5>> :> <<46497095, 9025049>>) @@
    (<<46300000, 9000000, 220, 40>> :> <<46451414, 9184589>>) @@
    (<<46300000, 9000000, 220, 45>> :> <<46439722, 9203016>>) @@
    (<<46300000, 9000000, 220, 85>> :> <<46316889, 9285373>>) @@
    (<<46300000, 9000000, 220, 90>> :> <<46299643, 9286373>>) @@
    (<<46300000, 9000000, 220, 135>> :> <<46159920, 9201981>>) @@
    (<<46300000, 9000000, 220, 185>> :> <<46102899, 8975130>>) @@
    (<<46300000, 9000000, 220, 225>> :> <<46159920, 8798019>>) @@
    (<<46300000, 9000000, 220, 265>> :> <<46282402, 8714807>>) @@
    (<<46300000, 9000000, 220, 315>> :> <<46439722, 8796984>>) @@
    (<<46300000, 9000000, 220, 320>> :> <<46451414, 8815411>>) @@
    (<<46300000, 9000000, 234, 45>> :> <<46448602, 9215970>>) @@
    (<<46300000, 9000000, 234, 180>> :> <<46089559, 9000000>>) @@
    (<<46300000, 9000000, 234, 225>> :> <<46150994, 8785201>>) @@
    (<<46300000, 9000000, 240, 0>> :> <<46515837, 9000000>>) @@
    (<<46300000, 9000000, 240, 5>> :> <<46515013, 9027336>>) @@
    (<<46300000, 9000000, 240, 40>> :> <<46465164, 9201420>>) @@
    (<<46300000, 9000000, 240, 45>> :> <<46452406, 9221523>>) @@
    (<<46300000, 9000000, 240, 85>> :> <<46318389, 9311325>>) @@
    (<<46300000, 9000000, 240, 90>> :> <<46299575, 9312406>>) @@
    (<<46300000, 9000000, 240, 135>> :> <<46147168, 9220292>>) @@
    (<<46300000, 9000000, 240, 185>> :> <<46084981, 8972878>>) @@
    (<<46300000, 9000000, 240, 225>> :> <<46147168, 8779708>>) @@
    (<<46300000, 9000000, 240, 265>> :> <<46280767, 8688889>>) @@
    (<<46300000, 9000000, 240, 315>> :> <<46452406, 8778477>>) @@
    (<<46300000, 9000000, 240, 320>> :> <<46465164, 8798580>>) @@
    (<<46300000, 9000000, 260, 0>> :> <<46533824, 9000000>>) @@
    (<<46300000, 9000000, 260, 5>> :> <<46532930, 9029623>>) @@
    (<<46300000, 9000000, 260, 40>> :> <<46478912, 9218260>>) @@
    (<<46300000, 9000000, 260, 45>> :> <<46465088, 9240039>>) @@
    (<<46300000, 9000000, 260, 85>> :> <<46319883, 9337278>>) @@
    (<<46300000, 9000000, 260, 90>> :> <<46299501, 9338440>>) @@
    (<<46300000, 9000000, 260, 135>> :> <<46134413, 9238594>>) @@
    (<<46300000, 9000000, 260, 185>> :> <<46067062, 8970628>>) @@
    (<<46300000, 9000000, 260, 225>> :> <<46134413, 8761406>>) @@
    (<<46300000, 9000000, 260, 265>> :> <<46279126, 8662973>>) @@
    (<<46300000, 9000000, 260, 315>> :> <<46465088, 8759961>>) @@
    (<<46300000, 9000000, 260, 320>> :> <<46478912, 8781740>>)

\* src lines 64-71, in metres
haversine_km(a, b) == HaversineTable[<<a, b>>]

\* src lines 227-237
offset_point(lat, lon, km10, bearing_deg) == OffsetTable[<<lat, lon, km10, bearing_deg>>]

\* src lines 73-85, in metres
RECURSIVE SumHops(_, _)
SumHops(locs, i) ==
    IF i >= Len(locs) THEN 0
    ELSE haversine_km(locs[i], locs[i + 1]) + SumHops(locs, i + 1)

\* the estimate without the closing hop
approx_total_km_from_locs_open(locs, roundtrip) ==
    IF Len(locs) < 2 THEN 0 ELSE SumHops(locs, 1)

\* src lines 73-85, in metres
approx_total_km_from_locs(locs, roundtrip) ==
    IF Len(locs) < 2 THEN 0
    ELSE SumHops(locs, 1) +
         (IF roundtrip THEN haversine_km(locs[Len(locs)], locs[1]) ELSE 0)

\* src lines 222-225
BEARING_MAP ==
    [k \in {"N", "NE", "E", "SE", "S", "SW", "W", "NW"} |->
        CASE k = "N" -> 0 [] k = "NE" -> 45 [] k = "E" -> 90 [] k = "SE" -> 135
          [] k = "S" -> 180 [] k = "SW" -> 225 [] k = "W" -> 270 [] k = "NW" -> 315]

\* src lines 239-245; base_km * 0.9 is 9 tenths of a km per km of base
seed_roundtrip_locations(start_lat, start_lon, base_km, bearing_deg) ==
    << offset_point(start_lat, start_lon, base_km * 10, (bearing_deg + 90) % 360),
       offset_point(start_lat, start_lon, base_km * 9, (bearing_deg + 180) % 360) >>

RT_TARGET_MIN == 70
RT_TARGET_MAX == 80
MAX_ROUTE_KM == 120
MAX_WAYPOINTS == 4
MAX_RADIUS_KM == 80
RATE_LIMIT_DAYS == 7
OWNER_ID == 1

\* a candidate that only equals the best score replaces it
Better_or_equal(score, best) == best.base = 0 \/ score >= best.score

\* (best is None) or (score > best[0]) (src line 268); None is the record of base 0
Better(score, best) == best.base = 0 \/ score > best.score

\* src lines 254-272: the loop over base_candidates; best is (score, base, locs, approx)
\* with the score in metres (1000 km for a candidate inside the band); seen lists
\* the bases the loop body has run for
RECURSIVE TuneLoop(_, _, _, _, _, _, _)
TuneLoop(cands, best, start, waypoints, desired_min, desired_max, bearing_deg) ==
    IF cands = <<>> THEN best
    ELSE LET base == Head(cands)
             locs == <<start>> \o
                     (IF waypoints # <<>> THEN waypoints
                      ELSE seed_roundtrip_locations(start[1], start[2], base, bearing_deg))
             approx == approx_total_km_from_locs(locs, TRUE)
             inband == desired_min * 1000 <= approx /\ approx <= desired_max * 1000
             score == IF inband THEN 1000000
                      ELSE IF approx < desired_min * 1000
                      THEN -(desired_min * 1000 - approx)
                      ELSE -(approx - desired_max * 1000)
             best2 == IF Better(score, best)
                      THEN [score |-> score, base |-> base, locs |-> locs, approx |-> approx,
                            seen |-> Append(best.seen, base)]
                      ELSE [best EXCEPT !.seen = Append(best.seen, base)]
         IN  IF inband THEN best2
             ELSE TuneLoop(Tail(cands), best2, start, waypoints, desired_min,
                           desired_max, bearing_deg)

\* a tuner with room for three waypoints only
tune_roundtrip_length_three(start, waypoints, desired_min, desired_max, bearing_deg) ==
    LET kept == IF Len(waypoints) > 3 THEN SubSeq(waypoints, 1, 3) ELSE waypoints
        best == TuneLoop(<<18, 20, 22>>,
                         [score |-> 0, base |-> 0, locs |-> <<>>, approx |-> 0,
                          seen |-> <<>>],
                         start, kept, desired_min, desired_max, bearing_deg)
    IN  [locs |-> best.locs, used_base |-> best.base, approx_km |-> best.approx,
         evaluated |-> best.seen]

\* src lines 247-275; returns best_locs, used_base, approx_km, and as evaluated
\* the bases the loop has run for
tune_roundtrip_length(start, waypoints, desired_min, desired_max, bearing_deg) ==
    LET base_candidates == IF waypoints # <<>> THEN <<18, 20, 22>>
                           ELSE <<18, 20, 22, 24, 26>>
        best == TuneLoop(base_candidates,
                         [score |-> 0, base |-> 0, locs |-> <<>>, approx |-> 0,
                          seen |-> <<>>],
                         start, waypoints, desired_min, desired_max, bearing_deg)
    IN  [locs |-> best.locs, used_base |-> best.base, approx_km |-> best.approx,
         evaluated |-> best.seen]

(***************************************************************************)
(* build_motorcycle_costing (src lines 419-485).  A profile is the dict    *)
(* the function returns, its weights in tenths; NoCosting is None.         *)
(***************************************************************************)
NoCosting == [profile |-> "None"]

Costing(name, hw, pr, se, te, cu, hi) ==
    [profile |-> name, use_highways |-> hw, use_primary |-> pr, use_secondary |-> se,
     use_tertiary |-> te, use_curves |-> cu, use_hills |-> hi,
     exclude_unpaved |-> TRUE, avoid_bad_surfaces |-> TRUE]

build_motorcycle_costing_open(style, is_owner) ==
    CASE style = "standard" -> Costing("standard", 5, 8, 10, 10, 0, 0)
      [] style = "curvy_light" -> Costing("curvy_light", 0, 4, 9, 11, 6, 4)
      [] style = "curvy" -> Costing("curvy", 0, 2, 10, 13, 14, 8)
      [] style = "super_curvy" -> Costing("super_curvy", 0, 1, 8, 15, 22, 12)
      [] OTHER -> NoCosting

build_motorcycle_costing(style, is_owner) ==
    CASE style = "standard" -> Costing("standard", 5, 8, 10, 10, 0, 0)
      [] style = "curvy_light" -> Costing("curvy_light", 0, 4, 9, 11, 6, 4)
      [] style = "curvy" ->
            IF ~is_owner THEN NoCosting ELSE Costing("curvy", 0, 2, 10, 13, 14, 8)
      [] style = "super_curvy" ->
            IF ~is_owner THEN NoCosting ELSE Costing("super_curvy", 0, 1, 8, 15, 22, 12)
      [] OTHER -> NoCosting

(***************************************************************************)
(* post_valhalla (src lines 405-416) and valhalla_route (src lines         *)
(* 488-557).  One HTTP request is one step; the reply is the oracle's.     *)
(* A reply is [kind, trip] with kind                                       *)
(*   "exception"        requests.post raised (connection error, timeout)   *)
(*   "status_error"     a response with r.ok false                         *)
(*   "ok_invalid_json"  r.ok, but r.json() raises                          *)
(*   "ok_no_trip"       r.ok, a JSON object without "trip"                 *)
(*   "ok_trip"          r.ok, a JSON object whose "trip" is `trip`         *)
(***************************************************************************)
POST_TIMEOUT == 30
POST_RETRIES == 1

\* resp_json = None, and the trip of a reply that has none
NoTrip == [legs |-> <<>>]
NoResp == [json |-> "None", trip |-> NoTrip]
NoPayload == [locations |-> <<>>, costing |-> "None", costing_options |-> NoCosting]
NoArgs == [locations |-> <<>>, passed |-> <<>>, style |-> "None", roundtrip |-> FALSE, is_owner |-> FALSE]
NoResult == [kind |-> "none", value |-> NotMerged]
Raised(e) == [kind |-> e, value |-> NotMerged]

\* one pass of `for _ in range(retries + 1)`: what the loop does after the reply
\* to request number `tries` of the call
post_valhalla_pass_short(reply, tries, retries) ==
    IF reply.kind \in {"ok_no_trip", "ok_trip"} THEN "returned"
    ELSE IF tries < retries THEN "running"
    ELSE "raised"

post_valhalla_pass(reply, tries, retries) ==
    IF reply.kind \in {"ok_no_trip", "ok_trip"} THEN "returned"
    ELSE IF tries < retries + 1 THEN "running"
    ELSE "raised"

\* the fallback tried whatever it is
urls_to_try_always == <<VALHALLA_URL, VALHALLA_URL_FALLBACK>>

\* src lines 509-513
urls_to_try ==
    <<VALHALLA_URL>> \o
    (IF VALHALLA_URL_FALLBACK # "" /\ VALHALLA_URL_FALLBACK # VALHALLA_URL
     THEN <<VALHALLA_URL_FALLBACK>> ELSE <<>>)

VrFinish(result) ==
    /\ vrPc' = "done"
    /\ vrResult' = result

\* the closing point appended to the caller's own list
LocationsAfter_inplace(locations, roundtrip) ==
    IF roundtrip /\ locations # <<>> THEN Append(locations, locations[1]) ELSE locations

\* src lines 492-495: what the statements leave in the list object that was
\* passed; list(locations) is a new list and locs + [...] another one
LocationsAfter(locations, roundtrip) == locations

\* src lines 489-507: the call up to its first request
VrCall(caller, locations, style, roundtrip, is_owner) ==
    /\ vrCaller' = caller
    /\ vrArgs' = [locations |-> locations,
                  passed |-> IF VALHALLA_URL = "" THEN locations
                             ELSE LocationsAfter(locations, roundtrip),
                  style |-> style, roundtrip |-> roundtrip, is_owner |-> is_owner]
    /\ vrUrlIdx' = 1
    /\ pvStatus' = "idle"
    /\ pvTries' = 0
    /\ vrLog' = <<>>
    /\ vrResp' = NoResp
    /\ LET costing_opts == build_motorcycle_costing(style, is_owner)
           locs == IF roundtrip THEN Append(locations, locations[1]) ELSE locations
       IN  IF VALHALLA_URL = ""
           THEN VrFinish(Raised("RuntimeError")) /\ vrPayload' = NoPayload
           ELSE IF roundtrip /\ locations = <<>>           \* s = locs[0]
           THEN VrFinish(Raised("IndexError")) /\ vrPayload' = NoPayload
           ELSE IF costing_opts = NoCosting
           THEN VrFinish(Raised("PermissionError")) /\ vrPayload' = NoPayload
           ELSE /\ vrPayload' = [locations |-> locs, costing |-> "motorcycle",
                                 costing_options |-> costing_opts]
                /\ vrPc' = "post"
                /\ vrResult' = NoResult

\* a call of valhalla_route while no other call is running
VrEnter(caller, locations, style, roundtrip, is_owner) ==
    /\ vrPc = "idle"
    /\ VrCall(caller, locations, style, roundtrip, is_owner)

\* src lines 518-529 around one request of post_valhalla (src lines 407-416)
VrRequest(reply) ==
    /\ vrPc = "post"
    /\ LET tries == IF pvStatus = "running" THEN pvTries + 1 ELSE 1
           after == post_valhalla_pass(reply, tries, POST_RETRIES)
       IN  /\ pvTries' = tries
           /\ pvStatus' = after
           /\ vrLog' = Append(vrLog, [url |-> urls_to_try[vrUrlIdx],
                                      timeout |-> POST_TIMEOUT, reply |-> reply])
           /\ IF after = "running"
              THEN UNCHANGED <<vrPc, vrUrlIdx, vrResp, vrResult>>
              ELSE IF after = "returned" /\ reply.kind = "ok_trip"
              THEN /\ vrResp' = [json |-> "trip", trip |-> reply.trip]
                   /\ vrPc' = "merge"
                   /\ UNCHANGED <<vrUrlIdx, vrResult>>
              ELSE IF vrUrlIdx < Len(urls_to_try)
              THEN /\ vrUrlIdx' = vrUrlIdx + 1
                   /\ UNCHANGED <<vrPc, vrResp, vrResult>>
              ELSE /\ VrFinish(Raised("RuntimeError"))
                   /\ UNCHANGED <<vrUrlIdx, vrResp>>
    /\ UNCHANGED <<vrCaller, vrArgs, vrPayload>>

\* the merge as it would be inside the try of the URL loop: a shape that does not
\* decode sends the loop on to the next URL
VrMergeStep_retry ==
    /\ vrPc = "merge"
    /\ LET out == MergeTrip(vrResp.trip)
       IN  IF out.err = "none"
           THEN VrFinish([kind |-> "ok", value |-> out]) /\ UNCHANGED vrUrlIdx
           ELSE IF vrUrlIdx < Len(urls_to_try)
           THEN vrPc' = "post" /\ vrUrlIdx' = vrUrlIdx + 1 /\ UNCHANGED vrResult
           ELSE VrFinish(Raised("RuntimeError")) /\ UNCHANGED vrUrlIdx
    /\ UNCHANGED <<vrCaller, vrArgs, vrPayload, pvStatus, pvTries, vrLog, vrResp>>

\* src lines 531-557: the merge of the response, outside any try
VrMergeStep ==
    /\ vrPc = "merge"
    /\ LET out == MergeTrip(vrResp.trip)
       IN  VrFinish(IF out.err = "none" THEN [kind |-> "ok", value |-> out]
                    ELSE Raised(out.err))
    /\ UNCHANGED <<vrCaller, vrArgs, vrPayload, vrUrlIdx, pvStatus, pvTries, vrLog,
                   vrResp>>

(***************************************************************************)
(* The conversation state (src lines 37-40, 390-399) and the route         *)
(* computation of the webhook (src lines 762-858).  In the callback branch *)
(* this block stands after an unconditional return (src line 760); it is   *)
(* modelled here as written, as the step that computes and delivers the    *)
(* route of a user whose phase is "style_selected".                        *)
(* None is <<>> for a point and "None" for a string.                       *)
(***************************************************************************)
NonePt == <<>>

\* the dict reset_state stores (src lines 391-399)
InitialState ==
    [phase |-> "start", start |-> NonePt, end |-> NonePt, waypoints |-> <<>>,
     style |-> "None", roundtrip |-> FALSE, direction |-> "None"]

\* uid not in USER_STATE
NoState == [InitialState EXCEPT !.phase = "absent"]

reset_state(uid) == USER_STATE' = [USER_STATE EXCEPT ![uid] = InitialState]

\* one thing sent to a Telegram chat; total_km and total_min in tenths, -1 when unused
Sent(to, kind, text) ==
    [to |-> to, kind |-> kind, text |-> text, total_km |-> -1, total_min |-> -1]

RunEnd(outcome) ==
    /\ runPc' = "done"
    /\ runOutcome' = outcome

\* src lines 763-812, up to the call of valhalla_route
RunStart(uid) ==
    /\ runPc = "idle"
    /\ vrPc = "idle"
    /\ USER_STATE[uid].phase = "style_selected"
    /\ runUid' = uid
    /\ LET state == USER_STATE[uid]
           start == state.start
           wps == state.waypoints
           roundtrip == state.roundtrip
           bearing == IF state.direction \in DOMAIN BEARING_MAP
                      THEN BEARING_MAP[state.direction] ELSE 45
           locs == IF roundtrip
                   THEN tune_roundtrip_length(start, wps, RT_TARGET_MIN, RT_TARGET_MAX,
                                              bearing).locs
                   ELSE <<start>> \o wps \o <<state.end>>
       IN  IF start = NonePt \/ (~roundtrip /\ state.end = NonePt)
           THEN \* start[0] or end[0] of None: TypeError, outside the try
                /\ runPc' = "crashed"
                /\ runOutcome' = "TypeError"
                /\ UNCHANGED <<USER_STATE, outbox, vrVars>>
           ELSE IF approx_total_km_from_locs(locs, roundtrip) > MAX_ROUTE_KM * 1000
           THEN /\ outbox' = Append(outbox, Sent(uid, "message", "LIMITS_EXCEEDED"))
                /\ reset_state(uid)
                /\ RunEnd("limits_exceeded")
                /\ UNCHANGED vrVars
           ELSE /\ VrEnter(uid, locs, state.style, roundtrip, uid = OWNER_ID)
                /\ runPc' = "route"
                /\ UNCHANGED <<USER_STATE, outbox, runOutcome>>
    /\ UNCHANGED <<LAST_DOWNLOAD, now>>

\* no rate limit
RateLimited_never(uid, last, t) == FALSE

\* uid != OWNER_ID and (now - last) < RATE_LIMIT_DAYS * 86400 (src line 831)
RateLimited(uid, last, t) == uid # OWNER_ID /\ (t - last) < RATE_LIMIT_DAYS * 86400

\* src lines 806-858, from the return of valhalla_route on; png says whether
\* download_static_map returned the picture
RunFinish(uid, png) ==
    /\ runPc = "route"
    /\ runUid = uid
    /\ vrPc = "done"
    /\ LET state == USER_STATE[uid]
           out == vrResult.value
           last == LAST_DOWNLOAD[uid]
       IN  IF vrResult.kind = "PermissionError"
           THEN /\ outbox' = Append(outbox, Sent(uid, "message", "PREMIUM_ONLY"))
                /\ RunEnd("premium_blocked")
                /\ UNCHANGED <<USER_STATE, LAST_DOWNLOAD>>
           ELSE IF vrResult.kind # "ok"
           THEN /\ outbox' = Append(outbox, Sent(uid, "message", "ROUTE_NOT_FOUND"))
                /\ reset_state(uid)
                /\ RunEnd("route_not_found")
                /\ UNCHANGED LAST_DOWNLOAD
           ELSE IF RateLimited(uid, last, now)
           THEN /\ outbox' = Append(outbox, Sent(uid, "message", "RATE_LIMIT_MSG"))
                /\ reset_state(uid)
                /\ RunEnd("rate_limited")
                /\ UNCHANGED LAST_DOWNLOAD
           ELSE /\ LAST_DOWNLOAD' = [LAST_DOWNLOAD EXCEPT ![uid] = now]
                /\ outbox' = outbox \o
                      (IF png /\ out.coords # <<>>
                       THEN <<Sent(uid, "photo", "route.png")>> ELSE <<>>) \o
                      << Sent(uid, "document", "percorso_turns.gpx"),
                         Sent(uid, "document", "percorso_simple.gpx"),
                         [Sent(uid, "message", "SUMMARY") EXCEPT
                             !.total_km = out.total_km, !.total_min = out.total_min] >>
                /\ reset_state(uid)
                /\ RunEnd("delivered")
    /\ UNCHANGED <<now, runUid, vrVars>>

(***************************************************************************)
(* The webhook (src lines 644-935).  An update is handled from its first   *)
(* line to its return.  Callback data and "admin:..." strings are kept as  *)
(* the list of their parts between colons; chat_id is the sender's private *)
(* chat, so it equals uid.  up says whether Telegram takes the handler's   *)
(* send_message calls: when it does not, requests.post raises, which ends  *)
(* the handler at the first send that is not inside a try.                 *)
(***************************************************************************)
\* data.startswith(prefix + ":")
StartsWith(data, prefix) == Len(data) >= 2 /\ data[1] = prefix

\* str.isdigit() and int() on the id strings of the model
DigitStrings == ("1" :> 1) @@ ("2" :> 2)
isdigit(x) == x \in DOMAIN DigitStrings
int(x) == DigitStrings[x]

\* src lines 146-157; geocoded is what geocode_address finds for the text
parse_location_from_message(msg) ==
    IF msg.location # NonePt THEN msg.location
    ELSE IF msg.text = "" THEN NonePt
    ELSE msg.geocoded

\* state = USER_STATE[uid] after `if uid not in USER_STATE: reset_state(uid)`
Ensure(uid) == IF USER_STATE[uid] = NoState THEN InitialState ELSE USER_STATE[uid]

\* what a handler leaves behind: the sender's state, the two sets, what it sent
Effect(state, auth, pend, out) == [state |-> state, auth |-> auth, pend |-> pend, out |-> out]

\* an access check that lets everybody in
Allowed_everybody(uid) == TRUE

\* the negation of `uid != OWNER_ID and uid not in AUTHORIZED` (src lines 692, 872)
Allowed(uid) == uid = OWNER_ID \/ uid \in AUTHORIZED

\* src lines 692-704 and 872-884: the sender is neither the owner nor authorized
AccessDenied(uid, up) ==
    Effect(Ensure(uid), AUTHORIZED, PENDING \cup {uid},
           IF up THEN (IF uid \notin PENDING
                       THEN <<Sent(OWNER_ID, "message", "ACCESS_REQUEST")>> ELSE <<>>)
                      \o <<Sent(uid, "message", "NOT_AUTH")>>
           ELSE <<>>)

\* an admin branch whose deny revokes the target's authorization
AdminCallback_revokes(uid, data, up) ==
    LET state == Ensure(uid)
        Say(msgs) == IF up THEN msgs ELSE <<>>
    IN  IF uid # OWNER_ID THEN Effect(state, AUTHORIZED, PENDING, <<>>)
        ELSE IF Len(data) = 3 /\ data[2] \in {"approve", "deny"} /\ isdigit(data[3])
        THEN LET target == int(data[3])
             IN  IF data[2] = "approve"
                 THEN Effect(state, AUTHORIZED \cup {target}, PENDING \ {target},
                             Say(<<Sent(target, "message", "ACCESS_GRANTED"),
                                   Sent(uid, "message", "APPROVED")>>))
                 ELSE Effect(state, AUTHORIZED \ {target}, PENDING \ {target},
                             Say(<<Sent(target, "message", "ACCESS_DENIED"),
                                   Sent(uid, "message", "DENIED")>>))
        ELSE Effect(state, AUTHORIZED, PENDING, <<>>)

\* src lines 665-679
AdminCallback(uid, data, up) ==
    LET state == Ensure(uid)
        Say(msgs) == IF up THEN msgs ELSE <<>>
    IN  IF uid # OWNER_ID THEN Effect(state, AUTHORIZED, PENDING, <<>>)
        ELSE IF Len(data) = 3 /\ data[2] \in {"approve", "deny"} /\ isdigit(data[3])
        THEN LET target == int(data[3])
             IN  IF data[2] = "approve"
                 THEN Effect(state, AUTHORIZED \cup {target}, PENDING \ {target},
                             Say(<<Sent(target, "message", "ACCESS_GRANTED"),
                                   Sent(uid, "message", "APPROVED")>>))
                 ELSE Effect(state, AUTHORIZED, PENDING \ {target},
                             Say(<<Sent(target, "message", "ACCESS_DENIED"),
                                   Sent(uid, "message", "DENIED")>>))
        ELSE Effect(state, AUTHORIZED, PENDING, <<>>)

\* src lines 745-758
StyleCallback(uid, data, up) ==
    LET state == Ensure(uid)
        Say(msgs) == IF up THEN msgs ELSE <<>>
        style == data[2]
    IN  IF style \in {"curvy", "super_curvy"} /\ uid # OWNER_ID
        THEN Effect(state, AUTHORIZED, PENDING, Say(<<Sent(uid, "message", "PREMIUM_ONLY")>>))
        ELSE Effect([state EXCEPT !.style = style, !.phase = "style_selected"],
                    AUTHORIZED, PENDING, Say(<<Sent(uid, "message", "PROCESSING")>>))

\* a round trip that keeps the destination stored before
RoundtripNow_keeps_end(state) ==
    [state EXCEPT !.roundtrip = TRUE, !.phase = "direction", !.direction = "None"]

\* the four assignments of action:roundtrip_now (src lines 714-717)
RoundtripNow(state) ==
    [state EXCEPT !.roundtrip = TRUE, !.end = NonePt, !.phase = "direction",
                  !.direction = "None"]

\* src lines 652-760: the callback branch, after answer_callback_query
HandleCallback(uid, data, up) ==
    LET state == Ensure(uid)
        Say(msgs) == IF up THEN msgs ELSE <<>>
        To(st, text) == Effect(st, AUTHORIZED, PENDING, Say(<<Sent(uid, "message", text)>>))
    IN  IF StartsWith(data, "admin") THEN AdminCallback(uid, data, up)
        ELSE IF data = <<"action", "cancel">> THEN To(InitialState, "CANCELLED")
        ELSE IF data = <<"action", "restart">> THEN To(InitialState, "RESTARTED")
        ELSE IF ~Allowed(uid) THEN AccessDenied(uid, up)
        ELSE IF data = <<"action", "set_end">>
        THEN To([state EXCEPT !.roundtrip = FALSE, !.phase = "end"], "ASK_END")
        ELSE IF data = <<"action", "roundtrip_now">>
        THEN To(RoundtripNow(state), "ASK_DIRECTION")
        ELSE IF StartsWith(data, "dir")
        THEN LET key == data[2]
                 dir == IF key = "skip" THEN "NE"
                        ELSE IF key \in DOMAIN BEARING_MAP THEN key ELSE "NE"
             IN  IF up
                 THEN Effect([state EXCEPT !.direction = dir, !.phase = "waypoints"],
                             AUTHORIZED, PENDING,
                             <<Sent(uid, "message", "DIRECTION_SET"),
                               Sent(uid, "message", "ASK_ROUNDTRIP_WAYPOINTS")>>)
                 ELSE Effect([state EXCEPT !.direction = dir], AUTHORIZED, PENDING, <<>>)
        ELSE IF data = <<"action", "finish_waypoints">>
        THEN To([state EXCEPT !.phase = "style"], "ASK_STYLE_TEXT")
        ELSE IF StartsWith(data, "style") THEN StyleCallback(uid, data, up)
        ELSE Effect(state, AUTHORIZED, PENDING, <<>>)

\* a list that is never full
WaypointsFull_never(state) == FALSE

\* len(state["waypoints"]) >= MAX_WAYPOINTS (src line 922)
WaypointsFull(state) == Len(state.waypoints) >= MAX_WAYPOINTS

\* src lines 861-935: the message branch
HandleMessage(uid, msg, up) ==
    LET state == Ensure(uid)
        Say(msgs) == IF up THEN msgs ELSE <<>>
        To(st, text) == Effect(st, AUTHORIZED, PENDING, Say(<<Sent(uid, "message", text)>>))
        loc == parse_location_from_message(msg)
    IN  IF ~Allowed(uid) THEN AccessDenied(uid, up)
        ELSE IF msg.text = "/start" THEN To(InitialState, "WELCOME")
        ELSE IF msg.text = "/cancel" THEN To(InitialState, "CANCELLED")
        ELSE IF state.phase = "start"
        THEN IF loc = NonePt THEN To(state, "INVALID_INPUT")
             ELSE To([state EXCEPT !.start = loc, !.phase = "choose_mode"], "START_SET")
        ELSE IF state.phase = "end"
        THEN IF loc = NonePt THEN To(state, "INVALID_INPUT")
             ELSE To([state EXCEPT !.end = loc, !.phase = "waypoints"], "ASK_WAYPOINTS")
        ELSE IF state.phase = "waypoints"
        THEN IF WaypointsFull(state) THEN To(state, "WAYPOINTS_FULL")
             ELSE IF loc = NonePt THEN To(state, "INVALID_INPUT")
             ELSE To([state EXCEPT !.waypoints = Append(@, loc)], "WAYPOINT_ADDED")
        ELSE Effect(state, AUTHORIZED, PENDING, <<>>)

\* one state dict shared by all users
Apply_shared(uid, e) ==
    /\ USER_STATE' = [u \in DOMAIN USER_STATE |-> e.state]
    /\ AUTHORIZED' = e.auth
    /\ PENDING' = e.pend
    /\ outbox' = e.out

\* the globals after a handler with effect e for sender uid
Apply(uid, e) ==
    /\ USER_STATE' = [USER_STATE EXCEPT ![uid] = e.state]
    /\ AUTHORIZED' = e.auth
    /\ PENDING' = e.pend
    /\ outbox' = e.out

(***************************************************************************)
(* Bounded inputs of the decoder harness.                                  *)
(***************************************************************************)
MaxPoints == 2
MaxRawLen == 4

\* micro-degree values: both signs, one-group and multi-group deltas
CoordVals == {-1000000, -17, -1, 0, 16, 1000000}
\* ' ' (below the bias), '?' (0), '@' (1), '_' (0 + continuation), '`' (1 + continuation)
RawChars == {32, 63, 64, 95, 96}

SeqsUpTo(S, n) == UNION {[1..k -> S] : k \in 0..n}

PointSeqs == SeqsUpTo(CoordVals \X CoordVals, MaxPoints)
RawStrings == SeqsUpTo(RawChars, MaxRawLen)

(***************************************************************************)
(* Bounded inputs of the merge harness.                                    *)
(***************************************************************************)
MaxLegs == 2

\* "??" [(0,0)]   "???A?A" [(0,0),(0,1),(0,2)]   "?C?A" [(0,2),(0,3)]
\* "II" [(5,5)]   "@?" [(-1,0)]   "" (no shape)   "?" and "??_" (malformed)
LegShapes ==
    { <<63, 63>>, <<63, 63, 63, 65, 63, 65>>, <<63, 67, 63, 65>>,
      <<73, 73>>, <<64, 63>>, <<>>, <<63>>, <<63, 63, 95>> }

\* the begin_shape_index values of a leg's maneuvers, in order
ManeuverIndexLists == { <<>>, <<0>>, <<1>>, <<0, 2>>, <<-1, 0>>, <<3, 1>> }

\* a leg of fixed length and time; maneuver k of leg l carries instruction <<l, k>>
MakeLeg(l, shape, idxs, length) ==
    [shape |-> shape, length |-> length, time |-> 1800,
     maneuvers |-> [k \in 1..Len(idxs) |->
                      [instruction |-> <<l, k>>, begin_shape_index |-> idxs[k]]]]

MergeTrips ==
    UNION { { [legs |-> [l \in 1..n |-> MakeLeg(l, sh[l], ix[l], 37540)]] :
                sh \in [1..n -> LegShapes], ix \in [1..n -> ManeuverIndexLists] } :
            n \in 0..MaxLegs }

(***************************************************************************)
(* Bounded inputs of valhalla_route and replies of the oracle.             *)
(***************************************************************************)
MaxLocs == 2

\* two places, in micro-degrees
RoutePoints == { <<45000000, 9000000>>, <<45100000, 9000000>> }
LocationLists == SeqsUpTo(RoutePoints, MaxLocs)

\* the four styles of the keyboard and a name build_motorcycle_costing does not know
Styles == {"standard", "curvy_light", "curvy", "super_curvy", "scenic"}

Urls == {"", "http://primary", "http://fallback"}

\* one-leg trips of 76, 82, 95 and 200 km
OneLegTrip(length) == [legs |-> <<MakeLeg(1, <<63, 63, 63, 65, 63, 65>>, <<0, 2>>, length)>>]
\* the two legs of the junction example, 75.1 km in all
TwoLegTrip ==
    [legs |-> <<MakeLeg(1, <<63, 63, 63, 65, 63, 65>>, <<0>>, 37540),
                MakeLeg(2, <<63, 67, 63, 65>>, <<0, 1>>, 37540)>>]
\* a trip whose second leg's shape ends inside a value
MalformedTrip ==
    [legs |-> <<MakeLeg(1, <<63, 63>>, <<0>>, 37540),
                MakeLeg(2, <<63, 63, 95>>, <<0>>, 37540)>>]
EmptyTrip == [legs |-> <<>>]

OracleTrips ==
    {OneLegTrip(76000), OneLegTrip(82000), OneLegTrip(95000), OneLegTrip(200000),
     TwoLegTrip, MalformedTrip, EmptyTrip}

Replies ==
    {[kind |-> k, trip |-> NoTrip] :
        k \in {"exception", "status_error", "ok_invalid_json", "ok_no_trip"}}
    \cup {[kind |-> "ok_trip", trip |-> t] : t \in OracleTrips}

\* what the oracle may answer to the next request: anything, or what the stub's
\* script holds for it (the last entry again once the script is used up)
OracleReplies ==
    IF oracle.mode = "any" THEN Replies
    ELSE {oracle.script[IF Len(vrLog) < Len(oracle.script)
                        THEN Len(vrLog) + 1 ELSE Len(oracle.script)]}

AnyOracle == [mode |-> "any", script |-> <<>>]
Stub(script) == [mode |-> "script", script |-> script]
Fail(kind) == [kind |-> kind, trip |-> NoTrip]
Km(length) == [kind |-> "ok_trip", trip |-> OneLegTrip(length)]

\* the stubs: always 200 km; 95, 82, 76 km; 76 km; 82 km after a failure; down;
\* one failure of each kind before 76 km; a malformed shape; a 75.1 km two-leg trip
Stubs ==
    { Stub(<<Km(200000)>>),
      Stub(<<Km(95000), Km(82000), Km(76000)>>),
      Stub(<<Km(76000)>>),
      Stub(<<Fail("exception"), Km(82000)>>),
      Stub(<<Fail("exception")>>),
      Stub(<<Fail("status_error"), Fail("ok_invalid_json"), Fail("ok_no_trip"), Km(76000)>>),
      Stub(<<[kind |-> "ok_trip", trip |-> MalformedTrip]>>),
      Stub(<<[kind |-> "ok_trip", trip |-> TwoLegTrip]>>) }

MaxRunWaypoints == 1

Users == {OWNER_ID, 2}
\* four places: 11 km, 60 km and 145 km from the first
UserPoints ==
    { <<45000000, 9000000>>, <<45100000, 9000000>>, <<45500000, 9300000>>,
      <<46300000, 9000000>> }
\* waypoints are taken among the places within reach
WaypointLists == SeqsUpTo({ <<45100000, 9000000>>, <<45500000, 9300000>> }, MaxRunWaypoints)
Directions == {"None", "N", "SW"}
\* the styles the premium lock lets a user store (src lines 749-753)
StylesOf(uid) ==
    IF uid = OWNER_ID THEN {"standard", "curvy_light", "curvy", "super_curvy"}
    ELSE {"standard", "curvy_light"}

\* the conversation states with phase "style_selected": a destination is only
\* ever stored while roundtrip is false, and action:roundtrip_now clears it
StyleSelectedStates(uid) ==
    { [phase |-> "style_selected", start |-> st, end |-> en, waypoints |-> wps,
       style |-> sty, roundtrip |-> rt, direction |-> dir] :
        st \in UserPoints \cup {NonePt}, en \in UserPoints \cup {NonePt},
        wps \in WaypointLists, sty \in StylesOf(uid), rt \in BOOLEAN, dir \in Directions }

(***************************************************************************)
(* Specifications.  Each one drives one part of the program; the parts it  *)
(* does not drive stay in their idle state.                                *)
(***************************************************************************)
DecodeIdle ==
    /\ decSrc = "none"
    /\ decPts = <<>>
    /\ decIn = <<>>
    /\ decOut = NotDecoded

MergeIdle ==
    /\ mgTrip = [legs |-> <<>>]
    /\ mgOut = NotMerged

ConfigAny ==
    /\ VALHALLA_URL \in {"", "http://primary"}
    /\ VALHALLA_URL_FALLBACK \in Urls

RouteIdle ==
    /\ vrPc = "idle"
    /\ vrCaller = "none"
    /\ vrArgs = NoArgs
    /\ vrPayload = NoPayload
    /\ vrUrlIdx = 1
    /\ pvStatus = "idle"
    /\ pvTries = 0
    /\ vrLog = <<>>
    /\ vrResp = NoResp
    /\ vrResult = NoResult

RunIdle ==
    /\ oracle = AnyOracle
    /\ USER_STATE = [u \in Users |-> NoState]
    /\ LAST_DOWNLOAD = [u \in Users |-> 0]
    /\ now = 19676 * 86400
    /\ runPc = "idle"
    /\ runUid = 0
    /\ runOutcome = "none"
    /\ outbox = <<>>

NoTuneArgs == [start |-> NonePt, waypoints |-> <<>>, desired_min |-> 0, desired_max |-> 0,
               bearing_deg |-> 0]
NotTuned == [locs |-> <<>>, used_base |-> 0, approx_km |-> -1, evaluated |-> <<>>]

TuneIdle ==
    /\ tnArgs = NoTuneArgs
    /\ tnOut = NotTuned

NoMessage == [text |-> "", location |-> NonePt, geocoded |-> NonePt]
NoUpdate == [kind |-> "none", uid |-> 0, data |-> <<>>, msg |-> NoMessage, tg |-> "ok"]

\* the module's globals as the import leaves them, with no AUTH_USERS_CSV
\* a request thread that is not handling a message, and the two threads of the model
NoThread == [pc |-> "idle", uid |-> 0, msg |-> NoMessage]
Threads == {1, 2}
NoThreads == [t \in Threads |-> NoThread]

BotIdle ==
    /\ AUTHORIZED = {OWNER_ID}
    /\ PENDING = {}
    /\ update = NoUpdate
    /\ handled = 0
    /\ threads = NoThreads

InitMerge ==
    /\ DecodeIdle
    /\ ConfigAny
    /\ RouteIdle
    /\ RunIdle
    /\ TuneIdle
    /\ BotIdle
    /\ mgTrip \in MergeTrips
    /\ mgOut = NotMerged

\* the harness runs the merge loop on its trip
Merge ==
    /\ mgOut = NotMerged
    /\ mgOut' = MergeTrip(mgTrip)
    /\ UNCHANGED mgTrip
    /\ UNCHANGED <<decVars, cfgVars, vrVars, oracle, runVars, tnVars, botVars>>

NextMerge == Merge

SpecMerge == InitMerge /\ [][NextMerge]_vars

InitDecode ==
    /\ MergeIdle
    /\ ConfigAny
    /\ RouteIdle
    /\ RunIdle
    /\ TuneIdle
    /\ BotIdle
    /\ decOut = NotDecoded
    /\ \/ /\ decSrc = "encoder"
          /\ decPts \in PointSeqs
          /\ decIn = encode_polyline6(decPts)
       \/ /\ decSrc = "raw"
          /\ decPts = <<>>
          /\ decIn \in RawStrings

\* the harness calls decode_polyline6 on its input
Decode ==
    /\ decSrc # "none"
    /\ decOut = NotDecoded
    /\ decOut' = decode_polyline6(decIn)
    /\ UNCHANGED <<decSrc, decPts, decIn>>
    /\ UNCHANGED <<mgVars, cfgVars, vrVars, oracle, runVars, tnVars, botVars>>

NextDecode == Decode

SpecDecode == InitDecode /\ [][NextDecode]_vars

InitRoute ==
    /\ DecodeIdle
    /\ MergeIdle
    /\ ConfigAny
    /\ RouteIdle
    /\ RunIdle
    /\ TuneIdle
    /\ BotIdle

\* a caller of the engine calls valhalla_route(locations, style, roundtrip, is_owner)
CallRoute ==
    /\ \E locations \in LocationLists, style \in Styles,
          roundtrip \in BOOLEAN, is_owner \in BOOLEAN :
            VrEnter("harness", locations, style, roundtrip, is_owner)
    /\ runPc = "idle"
    /\ UNCHANGED <<decVars, mgVars, cfgVars, oracle, runVars, tnVars, botVars>>

\* requests.post(...) of post_valhalla and the oracle's reply to it
HttpRequest ==
    /\ \E reply \in OracleReplies : VrRequest(reply)
    /\ UNCHANGED <<decVars, mgVars, cfgVars, oracle, runVars, tnVars, botVars>>

\* the merge of the response that holds "trip"
MergeResponse ==
    /\ VrMergeStep
    /\ UNCHANGED <<decVars, mgVars, cfgVars, oracle, runVars, tnVars, botVars>>

NextRoute == CallRoute \/ HttpRequest \/ MergeResponse

SpecRoute == InitRoute /\ [][NextRoute]_vars

\* the caller calls valhalla_route once more with the list object it passed to
\* the first call, and with the same other arguments
CallAgain ==
    /\ vrPc = "done"
    /\ vrCaller = "harness"
    /\ VrCall("harness_again", vrArgs.passed, vrArgs.style, vrArgs.roundtrip,
              vrArgs.is_owner)
    /\ UNCHANGED <<decVars, mgVars, cfgVars, oracle, runVars, tnVars, botVars>>

NextTwice == CallRoute \/ HttpRequest \/ MergeResponse \/ CallAgain

SpecTwice == InitRoute /\ [][NextTwice]_vars

\* one user is in phase "style_selected"; the primary URL is configured, and the
\* last delivery, if any, was 3 or 8 days ago
InitRun ==
    /\ DecodeIdle
    /\ MergeIdle
    /\ RouteIdle
    /\ TuneIdle
    /\ BotIdle
    /\ VALHALLA_URL = "http://primary"
    /\ VALHALLA_URL_FALLBACK \in {"", "http://fallback"}
    /\ oracle \in Stubs
    /\ now = 19676 * 86400
    /\ \E uid \in Users :
          /\ USER_STATE \in {[u \in Users |-> IF u = uid THEN st ELSE NoState] :
                                st \in {x \in StyleSelectedStates(uid) :
                                           x.roundtrip => x.end = NonePt}}
          /\ LAST_DOWNLOAD \in {[u \in Users |-> IF u = uid THEN t ELSE 0] :
                                   t \in {0, now - 3 * 86400, now - 8 * 86400}}
    /\ runPc = "idle"
    /\ runUid = 0
    /\ runOutcome = "none"
    /\ outbox = <<>>

\* the route computation starts for a user in phase "style_selected"
ComputeRoute ==
    /\ \E uid \in Users : RunStart(uid)
    /\ UNCHANGED <<decVars, mgVars, cfgVars, oracle, tnVars, botVars>>

\* valhalla_route has returned or raised: the rest of the computation
DeliverRoute ==
    /\ \E uid \in Users, png \in BOOLEAN : RunFinish(uid, png)
    /\ UNCHANGED <<decVars, mgVars, cfgVars, oracle, tnVars, botVars>>

NextRun == ComputeRoute \/ HttpRequest \/ MergeResponse \/ DeliverRoute

SpecRun == InitRun /\ [][NextRun]_vars

\* bounded inputs of the tune harness
MaxTuneWaypoints == 4
TuneWaypointLists ==
    SeqsUpTo({ <<45100000, 9000000>>, <<45500000, 9300000>> }, MaxTuneWaypoints)
TuneBearings == {45, 0, 225}
\* desired bands in km: the declared one, one the second candidate meets, one
\* above and one below every candidate
TuneBands == { <<RT_TARGET_MIN, RT_TARGET_MAX>>, <<60, 70>>, <<100, 110>>, <<10, 20>> }

InitTune ==
    /\ DecodeIdle
    /\ MergeIdle
    /\ ConfigAny
    /\ RouteIdle
    /\ RunIdle
    /\ BotIdle
    /\ tnOut = NotTuned
    /\ tnArgs \in { [start |-> st, waypoints |-> wps, desired_min |-> band[1],
                     desired_max |-> band[2], bearing_deg |-> b] :
                       st \in UserPoints, wps \in TuneWaypointLists, band \in TuneBands,
                       b \in TuneBearings }

\* the harness calls tune_roundtrip_length on its arguments
Tune ==
    /\ tnOut = NotTuned
    /\ tnOut' = tune_roundtrip_length(tnArgs.start, tnArgs.waypoints, tnArgs.desired_min,
                                      tnArgs.desired_max, tnArgs.bearing_deg)
    /\ UNCHANGED tnArgs
    /\ UNCHANGED <<decVars, mgVars, cfgVars, vrVars, oracle, runVars, botVars>>

NextTune == Tune

SpecTune == InitTune /\ [][NextTune]_vars

\* the updates of the model
MaxUpdates == 4

CallbackData ==
    { <<"admin", "approve", "2">>, <<"admin", "deny", "2">>, <<"admin", "approve", "x">>,
      <<"action", "cancel">>, <<"action", "restart">>, <<"action", "set_end">>,
      <<"action", "roundtrip_now">>, <<"action", "finish_waypoints">>,
      <<"dir", "N">>, <<"dir", "skip">>, <<"style", "standard">>, <<"style", "curvy">>,
      <<"noop">> }

\* /start, /cancel, an address the geocoder finds, one it does not
Messages ==
    { [text |-> "/start", location |-> NonePt, geocoded |-> NonePt],
      [text |-> "/cancel", location |-> NonePt, geocoded |-> NonePt],
      [text |-> "via Roma 1", location |-> NonePt, geocoded |-> <<45100000, 9000000>>],
      [text |-> "qwerty", location |-> NonePt, geocoded |-> NonePt] }

\* the process after import: nobody has a state; AUTH_USERS_CSV names user 2 or nobody
InitBot ==
    /\ DecodeIdle
    /\ MergeIdle
    /\ RouteIdle
    /\ TuneIdle
    /\ VALHALLA_URL = "http://primary"
    /\ VALHALLA_URL_FALLBACK = ""
    /\ oracle = AnyOracle
    /\ USER_STATE = [u \in Users |-> NoState]
    /\ LAST_DOWNLOAD = [u \in Users |-> 0]
    /\ now = 19676 * 86400
    /\ runPc = "idle"
    /\ runUid = 0
    /\ runOutcome = "none"
    /\ outbox = <<>>
    /\ AUTHORIZED \in {{OWNER_ID}, {OWNER_ID, 2}}
    /\ PENDING = {}
    /\ threads = NoThreads
    /\ update = NoUpdate
    /\ handled = 0

BotFrame ==
    UNCHANGED <<decVars, mgVars, cfgVars, vrVars, oracle, tnVars,
                LAST_DOWNLOAD, now, runPc, runUid, runOutcome, threads>>

\* the webhook handles a callback query (src lines 652-760); when
\* answer_callback_query raises (src line 658) nothing else has happened
Callback(uid, data, tg) ==
    /\ update' = [kind |-> "callback", uid |-> uid, data |-> data, msg |-> NoMessage,
                  tg |-> tg]
    /\ IF tg = "answer_fails"
       THEN outbox' = <<>> /\ UNCHANGED <<USER_STATE, AUTHORIZED, PENDING>>
       ELSE Apply(uid, HandleCallback(uid, data, tg = "ok"))

CallbackUpdate ==
    /\ handled < MaxUpdates
    /\ \E uid \in Users, data \in CallbackData, tg \in {"ok", "answer_fails", "send_fails"} :
          Callback(uid, data, tg)
    /\ handled' = handled + 1
    /\ BotFrame

\* the webhook handles a message (src lines 861-935)
Message(uid, msg, tg) ==
    /\ update' = [kind |-> "message", uid |-> uid, data |-> <<>>, msg |-> msg, tg |-> tg]
    /\ Apply(uid, HandleMessage(uid, msg, tg = "ok"))

MessageUpdate ==
    /\ handled < MaxUpdates
    /\ \E uid \in Users, msg \in Messages, tg \in {"ok", "send_fails"} :
          Message(uid, msg, tg)
    /\ handled' = handled + 1
    /\ BotFrame

\* a request with a wrong token (src lines 646-647) or an update that is neither
\* a callback query nor a message (src line 935)
IgnoredUpdate ==
    /\ handled < MaxUpdates
    /\ update' = [NoUpdate EXCEPT !.kind = "ignored"]
    /\ outbox' = <<>>
    /\ handled' = handled + 1
    /\ UNCHANGED <<USER_STATE, AUTHORIZED, PENDING>>
    /\ BotFrame

NextBot == CallbackUpdate \/ MessageUpdate \/ IgnoredUpdate

SpecBot == InitBot /\ [][NextBot]_vars

\* the webhook keeps handling the updates that arrive
SpecBotFair == InitBot /\ [][NextBot]_vars /\ WF_vars(NextBot)

\* the engine called directly, and the webhook: valhalla_route is called by a
\* harness in a process that has handled no update, updates are handled in a
\* process where valhalla_route has not been called
EngineUntouched == vrPc = "idle" /\ vrLog = <<>>

WebhookCallback == EngineUntouched /\ CallbackUpdate
WebhookMessage == EngineUntouched /\ MessageUpdate
WebhookIgnored == EngineUntouched /\ IgnoredUpdate
DirectCall == handled = 0 /\ CallRoute
DirectRequest == handled = 0 /\ HttpRequest
DirectMerge == handled = 0 /\ MergeResponse

NextPremium ==
    \/ WebhookCallback \/ WebhookMessage \/ WebhookIgnored
    \/ DirectCall \/ DirectRequest \/ DirectMerge

SpecPremium == InitBot /\ [][NextPremium]_vars

\* one user alone talks to the bot, for as long as that user likes: every
\* update comes from the sender of the first one
OneSender(uid) == update.kind = "none" \/ update.uid = uid

SoloCallback ==
    /\ \E uid \in Users, data \in CallbackData, tg \in {"ok", "answer_fails", "send_fails"} :
          OneSender(uid) /\ Callback(uid, data, tg)
    /\ UNCHANGED handled
    /\ BotFrame

SoloMessage ==
    /\ \E uid \in Users, msg \in Messages, tg \in {"ok", "send_fails"} :
          OneSender(uid) /\ Message(uid, msg, tg)
    /\ UNCHANGED handled
    /\ BotFrame

NextSolo == SoloCallback \/ SoloMessage

SpecSolo == InitBot /\ [][NextSolo]_vars

(***************************************************************************)
(* Two request threads (app.run serves each request in a thread of its     *)
(* own, src line 941) handle waypoint messages of a user in phase          *)
(* "waypoints".  A handler that gets past the length check (src line 922)  *)
(* calls parse_location_from_message (src line 926), whose geocode_address *)
(* waits for an HTTP answer (src lines 129-144); the other thread runs     *)
(* meanwhile.  Both threads hold the same dict USER_STATE[uid].            *)
(***************************************************************************)
\* a place sent as a location, an address the geocoder finds, one it does not
WaypointMessages ==
    { [text |-> "", location |-> <<45500000, 9300000>>, geocoded |-> NonePt],
      [text |-> "via Roma 1", location |-> NonePt, geocoded |-> <<45100000, 9000000>>],
      [text |-> "qwerty", location |-> NonePt, geocoded |-> NonePt] }

\* the conversation states in phase "waypoints" the race starts from: the start
\* is set, a destination or a round trip with its direction is chosen, and up to
\* MAX_WAYPOINTS waypoints were added one after the other
WaypointPhaseStates ==
    { [phase |-> "waypoints", start |-> <<45000000, 9000000>>, end |-> en,
       waypoints |-> wps, style |-> "None", roundtrip |-> (en = NonePt),
       direction |-> IF en = NonePt THEN "NE" ELSE "None"] :
        en \in {NonePt, <<45500000, 9300000>>},
        wps \in SeqsUpTo({ <<45100000, 9000000>> }, MAX_WAYPOINTS) }

InitRace ==
    /\ DecodeIdle
    /\ MergeIdle
    /\ RouteIdle
    /\ TuneIdle
    /\ VALHALLA_URL = "http://primary"
    /\ VALHALLA_URL_FALLBACK = ""
    /\ oracle = AnyOracle
    /\ LAST_DOWNLOAD = [u \in Users |-> 0]
    /\ now = 19676 * 86400
    /\ runPc = "idle"
    /\ runUid = 0
    /\ runOutcome = "none"
    /\ outbox = <<>>
    /\ AUTHORIZED = {OWNER_ID, 2}
    /\ PENDING = {}
    /\ update = NoUpdate
    /\ handled = 0
    /\ threads = NoThreads
    /\ USER_STATE \in {[u \in Users |-> IF u = uid THEN st ELSE NoState] :
                          uid \in Users, st \in WaypointPhaseStates}

RaceFrame ==
    UNCHANGED <<decVars, mgVars, cfgVars, vrVars, oracle, tnVars,
                LAST_DOWNLOAD, now, runPc, runUid, runOutcome, update, handled>>

\* a thread starts on a waypoint message (src lines 861-926): it answers at once
\* when the sender is not allowed or the list is full, and otherwise enters
\* parse_location_from_message
ReceiveWaypoint(t, uid, msg) ==
    /\ threads[t].pc = "idle"
    /\ USER_STATE[uid].phase = "waypoints"
    /\ IF Allowed(uid) /\ ~WaypointsFull(USER_STATE[uid])
       THEN /\ threads' = [threads EXCEPT ![t] = [pc |-> "geocode", uid |-> uid,
                                                  msg |-> msg]]
            /\ UNCHANGED <<USER_STATE, AUTHORIZED, PENDING, outbox>>
       ELSE /\ Apply(uid, HandleMessage(uid, msg, TRUE))
            /\ UNCHANGED threads

\* parse_location_from_message returns to the thread (src lines 926-933)
AppendWaypoint(t) ==
    /\ threads[t].pc = "geocode"
    /\ LET uid == threads[t].uid
           state == USER_STATE[uid]
           loc == parse_location_from_message(threads[t].msg)
       IN  Apply(uid, IF loc = NonePt
                      THEN Effect(state, AUTHORIZED, PENDING,
                                  <<Sent(uid, "message", "INVALID_INPUT")>>)
                      ELSE Effect([state EXCEPT !.waypoints = Append(@, loc)],
                                  AUTHORIZED, PENDING,
                                  <<Sent(uid, "message", "WAYPOINT_ADDED")>>))
    /\ threads' = [threads EXCEPT ![t] = NoThread]

RaceReceive ==
    /\ \E t \in Threads, uid \in Users, msg \in WaypointMessages :
          ReceiveWaypoint(t, uid, msg)
    /\ RaceFrame

RaceAppend ==
    /\ \E t \in Threads : AppendWaypoint(t)
    /\ RaceFrame

NextRace == RaceReceive \/ RaceAppend

SpecRace == InitRace /\ [][NextRace]_vars

(***************************************************************************)
(* Claims.                                                                 *)
(***************************************************************************)
\* the points a leg's own shape decodes to (none for a leg without shape)
OwnCoords(leg) == IF leg.shape = <<>> THEN <<>> ELSE decode_polyline6(leg.shape).coords

\* the number of points the shapes of legs 1..l decode to
RECURSIVE CoordsThrough(_, _)
CoordsThrough(legs, l) ==
    IF l = 0 THEN 0 ELSE CoordsThrough(legs, l - 1) + Len(OwnCoords(legs[l]))

\* C1: every emitted maneuver lies at the coordinate its OWN leg's decoded shape
\* holds at the maneuver's begin_shape_index (the index is leg-local and is
\* re-based); a maneuver of a later leg never lies at an earlier leg's coordinate.
C1_ManeuverAtOwnLegCoordinate ==
    mgOut.err = "none" =>
        \A i \in 1..Len(mgOut.maneuvers) :
            LET mo == mgOut.maneuvers[i]
                leg == mgTrip.legs[mo.instruction[1]]
                idx == leg.maneuvers[mo.instruction[2]].begin_shape_index
                own == OwnCoords(leg)
            IN  leg.shape # <<>> =>
                    /\ idx < Len(own)
                    /\ <<mo.lat, mo.lon>> = own[idx + 1]

\* the two legs of the example: [(0,0),(0,1),(0,2)] and [(0,2),(0,3)]
IsJunctionExample(trip) ==
    /\ Len(trip.legs) = 2
    /\ trip.legs[1].shape = <<63, 63, 63, 65, 63, 65>>
    /\ trip.legs[2].shape = <<63, 67, 63, 65>>

\* C2: a junction point shared by two consecutive legs appears once in the merged
\* list: the example merges to [(0,0),(0,1),(0,2),(0,3)], and the merged list
\* never holds two equal adjacent points at a leg boundary.
C2_JunctionPointOnce ==
    mgOut.err = "none" =>
        /\ IsJunctionExample(mgTrip) =>
               mgOut.coords = << <<0, 0>>, <<0, 1>>, <<0, 2>>, <<0, 3>> >>
        /\ \A l \in 1..(Len(mgTrip.legs) - 1) :
               LET n == CoordsThrough(mgTrip.legs, l)
               IN  (1 <= n /\ n < Len(mgOut.coords)) =>
                       mgOut.coords[n] # mgOut.coords[n + 1]

\* a character that ends a value (b < 0x20)
EndsValue(c) == c - 63 < 32
\* the number of complete values in a string
NumValues(s) == Cardinality({i \in 1..Len(s) : EndsValue(s[i])})
\* a string that ends at the end of a longitude
WholePoints(s) ==
    /\ s = <<>> \/ EndsValue(s[Len(s)])
    /\ NumValues(s) % 2 = 0

\* C8: decode_polyline6 inverts the precision-6 encoder: for every sequence of
\* points with integer micro-degree coordinates, of either sign,
\* decode(encode(points)) = points, in the same order.
C8_DecodeInvertsEncode ==
    (decSrc = "encoder" /\ decOut # NotDecoded) =>
        /\ decOut.err = "none"
        /\ decOut.coords = decPts

C8_Witness ==
    /\ decSrc = "encoder"
    /\ decOut # NotDecoded
    /\ Len(decPts) = 2
    /\ decPts[1][1] < 0
    /\ decPts[2][2] > decPts[1][2] + 16
    /\ Len(decIn) > 4
    /\ decOut.coords = decPts

\* C9: decode_polyline6 either consumes its whole input and returns the points,
\* one per pair of values, or fails; an input that ends inside a value or after
\* a latitude makes it fail, never return a partial list.
C9_DecodeAllOrError ==
    decOut # NotDecoded =>
        IF WholePoints(decIn)
        THEN /\ decOut.err = "none"
             /\ decOut.index = Len(decIn)
             /\ 2 * Len(decOut.coords) = NumValues(decIn)
        ELSE decOut = IndexError

C9_Witness ==
    /\ decSrc = "raw"
    /\ decOut = IndexError
    /\ NumValues(decIn) = 3
    /\ ~EndsValue(decIn[Len(decIn)])

\* C6: every location list submitted to the oracle has at least 2 entries, and
\* for a round trip its first and last entries are equal, whatever list
\* valhalla_route was given.
C6_SubmittedLocations ==
    \A i \in 1..Len(vrLog) :
        /\ Len(vrPayload.locations) >= 2
        /\ vrArgs.roundtrip =>
               vrPayload.locations[1] = vrPayload.locations[Len(vrPayload.locations)]

\* the requests of the current (or last) post_valhalla call, as positions of vrLog
PvRequests == (Len(vrLog) - pvTries + 1)..Len(vrLog)
\* a response with r.ok
ReplyOk(reply) == reply.kind \in {"ok_invalid_json", "ok_no_trip", "ok_trip"}
\* a response with r.ok whose body r.json() parses
ReplyJson(reply) == reply.kind \in {"ok_no_trip", "ok_trip"}

\* C7 as stated: at most retries+1 requests, each with the timeout; the call
\* returns on the first successful response and issues no request after it; it
\* raises only after retries+1 attempts that failed by status or exception.
C7_ReturnsFirstSuccessful ==
    /\ pvTries <= POST_RETRIES + 1
    /\ \A i \in 1..Len(vrLog) : vrLog[i].timeout = POST_TIMEOUT
    /\ \A i \in PvRequests : ReplyOk(vrLog[i].reply) =>
           i = Len(vrLog) /\ pvStatus = "returned"
    /\ pvStatus = "returned" => ReplyOk(vrLog[Len(vrLog)].reply)
    /\ pvStatus = "raised" =>
           /\ pvTries = POST_RETRIES + 1
           /\ \A i \in PvRequests : vrLog[i].reply.kind \in {"exception", "status_error"}

\* C7 amended: at most retries+1 requests, each with the timeout; the call
\* returns on the first response that is ok and whose body parses as JSON, and
\* issues no request after it; it raises only after retries+1 attempts that each
\* failed by status, by exception or by a body that is not JSON.
C7_ReturnsFirstParsed ==
    /\ pvTries <= POST_RETRIES + 1
    /\ \A i \in 1..Len(vrLog) : vrLog[i].timeout = POST_TIMEOUT
    /\ \A i \in PvRequests : ReplyJson(vrLog[i].reply) =>
           i = Len(vrLog) /\ pvStatus = "returned"
    /\ pvStatus = "returned" => ReplyJson(vrLog[Len(vrLog)].reply)
    /\ pvStatus = "running" => pvTries < POST_RETRIES + 1
    /\ pvStatus = "raised" =>
           /\ pvTries = POST_RETRIES + 1
           /\ \A i \in PvRequests : ~ReplyJson(vrLog[i].reply)

C7_Witness ==
    /\ pvStatus = "returned"
    /\ pvTries = 2
    /\ vrLog[Len(vrLog) - 1].reply.kind = "ok_invalid_json"
    /\ vrLog[Len(vrLog)].reply.kind = "ok_trip"

\* a trip all of whose shapes end at the end of a longitude
ShapesWhole(trip) == \A l \in 1..Len(trip.legs) : WholePoints(trip.legs[l].shape)

\* C10: a response whose shape does not decode is fatal: it is the last request
\* valhalla_route issues (no retry, no fallback) and the call raises.
C10_MalformedShapeFatal ==
    \A i \in 1..Len(vrLog) :
        (vrLog[i].reply.kind = "ok_trip" /\ ~ShapesWhole(vrLog[i].reply.trip)) =>
            /\ i = Len(vrLog)
            /\ vrPc \in {"merge", "done"}
            /\ vrPc = "done" => vrResult.kind = "IndexError"

C10_Witness ==
    /\ vrPc = "done"
    /\ vrResult.kind = "IndexError"
    /\ Len(vrLog) = 1
    /\ vrLog[1].reply.trip = MalformedTrip
    /\ Len(urls_to_try) = 2

Always200 == Stub(<<Km(200000)>>)

Shrinking == Stub(<<Km(95000), Km(82000), Km(76000)>>)

Visible == outbox[Len(outbox)]
\* what the run sends when valhalla_route raised anything but PermissionError
RouteNotFound == Sent(runUid, "message", "ROUTE_NOT_FOUND")
\* every attempt of the run ended in a transport exception: no response at all
NoResponseAtAll == \A i \in 1..Len(vrLog) : vrLog[i].reply.kind = "exception"
\* some attempt obtained a parsed JSON answer
GotAnswer == \E i \in 1..Len(vrLog) : ReplyJson(vrLog[i].reply)
OracleFailed ==
    runPc = "done" /\ vrLog # <<>> /\ vrResult.kind \notin {"ok", "none"}

Rebased(trip, l, k) ==
    CoordsThrough(trip.legs, l - 1) + trip.legs[l].maneuvers[k].begin_shape_index

Emitted(l, k) == \E i \in 1..Len(mgOut.maneuvers) : mgOut.maneuvers[i].instruction = <<l, k>>

\* instruction <<l1, k1>> stands before <<l2, k2>> in the response
Before(a, b) == a[1] < b[1] \/ (a[1] = b[1] /\ a[2] < b[2])

\* C12: a maneuver whose re-based begin index is negative or not smaller than
\* the length of the merged coordinate list is dropped; such an index never
\* makes the merge fail, and the maneuvers emitted keep their original order.
C12_OutOfRangeDropped ==
    /\ (mgOut # NotMerged /\ ShapesWhole(mgTrip)) => mgOut.err = "none"
    /\ mgOut.err = "none" =>
         /\ \A l \in 1..Len(mgTrip.legs) : \A k \in 1..Len(mgTrip.legs[l].maneuvers) :
                (Rebased(mgTrip, l, k) < 0 \/ Rebased(mgTrip, l, k) >= Len(mgOut.coords))
                    => ~Emitted(l, k)
         /\ \A i, j \in 1..Len(mgOut.maneuvers) :
                i < j => Before(mgOut.maneuvers[i].instruction, mgOut.maneuvers[j].instruction)

\* C13: a round-trip request that succeeds returns a merged path whose final
\* point equals the start point (micro-degrees are 6 decimal places).
C13_RoundTripPathClosed ==
    (vrPc = "done" /\ vrResult.kind = "ok" /\ vrArgs.roundtrip) =>
        /\ vrResult.value.coords # <<>>
        /\ vrResult.value.coords[Len(vrResult.value.coords)] = vrArgs.locations[1]

\* how often point v stands in the sequence q
Occurrences(q, v) == Cardinality({i \in 1..Len(q) : q[i] = v})
\* the points of the tuned list after the start, and those of them the user did not supply
TunedAfterStart == Tail(tnOut.locs)
Synthesized ==
    Cardinality({i \in 1..Len(TunedAfterStart) :
                    \A k \in 1..Len(tnArgs.waypoints) : TunedAfterStart[i] # tnArgs.waypoints[k]})
KeepsWaypoints ==
    /\ tnOut.locs[1] = tnArgs.start
    /\ \A k \in 1..Len(tnArgs.waypoints) :
           Occurrences(TunedAfterStart, tnArgs.waypoints[k])
               = Occurrences(tnArgs.waypoints, tnArgs.waypoints[k])

SlotPoints(start, base, bearing_deg) ==
    << offset_point(start[1], start[2], base * 10, (bearing_deg + 320) % 360),
       offset_point(start[1], start[2], base * 10, bearing_deg % 360),
       offset_point(start[1], start[2], base * 10, (bearing_deg + 40) % 360) >>

\* C15: with no user waypoints the synthesizer's output is exactly the three
\* points projected from the start at the radius in use along the slot bearings
\* base-40, base and base+40 degrees, in slot order.
C15_ThreeSlotPoints ==
    (tnOut # NotTuned /\ tnArgs.waypoints = <<>>) =>
        TunedAfterStart = SlotPoints(tnArgs.start, tnOut.used_base, tnArgs.bearing_deg)

C17_SessionsIsolated ==
    [][\A b \in Users :
          b # update'.uid =>
              /\ USER_STATE'[b] = USER_STATE[b]
              /\ LAST_DOWNLOAD'[b] = LAST_DOWNLOAD[b]]_vars

C17_Witness ==
    /\ update.kind = "callback"
    /\ update.uid = OWNER_ID
    /\ update.data = <<"admin", "deny", "2">>
    /\ update.tg = "ok"
    /\ USER_STATE[2].phase = "choose_mode"
    /\ USER_STATE[OWNER_ID] = InitialState

\* the style callback of an allowed user for a style open to that user has been handled
StyleJustSelected ==
    /\ update.kind = "callback"
    /\ update.tg = "ok"
    /\ StartsWith(update.data, "style")
    /\ update.uid = OWNER_ID \/ update.uid \in AUTHORIZED
    /\ update.uid = OWNER_ID \/ update.data[2] \notin {"curvy", "super_curvy"}
    /\ USER_STATE[update.uid].phase = "style_selected"

\* valhalla_route has been invoked, and a handler has sent the route files or an
\* error message of the computation
RouteComputed ==
    /\ vrPc # "idle"
    /\ \E i \in 1..Len(outbox) :
          \/ outbox[i].kind = "document"
          \/ outbox[i].text \in {"ROUTE_NOT_FOUND", "LIMITS_EXCEEDED", "RATE_LIMIT_MSG",
                                 "PREMIUM_ONLY"}

\* C18: after an authorized user selects a permitted style the route
\* computation is eventually performed: valhalla_route is invoked and the user
\* receives the route files or an error message.
C18_StyleSelectedLeadsToRoute == StyleJustSelected ~> RouteComputed

\* C19: a user who is neither the owner nor authorized has the initial
\* conversation state (or none yet): none of start, end, waypoints, style,
\* roundtrip, direction is set and the phase is "start".
C19_UnauthorizedStateInitial ==
    \A u \in Users :
        (u # OWNER_ID /\ u \notin AUTHORIZED) => USER_STATE[u] \in {NoState, InitialState}

C19_Witness ==
    /\ update.kind = "message"
    /\ update.uid = 2
    /\ update.msg.geocoded # NonePt
    /\ 2 \notin AUTHORIZED
    /\ USER_STATE[2] = InitialState
    /\ outbox # <<>>
    /\ outbox[Len(outbox)] = Sent(2, "message", "NOT_AUTH")

PremiumStyles == {"curvy", "super_curvy"}

\* C20: the style stored for a user other than the owner is never curvy or
\* super_curvy, and no oracle request carrying the curvy or super_curvy profile
\* is issued with is_owner false: such a call of valhalla_route raises
\* PermissionError with no request sent.
C20_PremiumReserved ==
    /\ \A u \in Users : u # OWNER_ID => USER_STATE[u].style \notin PremiumStyles
    /\ (vrLog # <<>> /\ ~vrArgs.is_owner) =>
           /\ vrArgs.style \notin PremiumStyles
           /\ vrPayload.costing_options.profile \notin PremiumStyles
    /\ (vrPc = "done" /\ ~vrArgs.is_owner /\ vrArgs.style \in PremiumStyles
           /\ VALHALLA_URL # "" /\ (vrArgs.roundtrip => vrArgs.locations # <<>>)) =>
           vrResult.kind = "PermissionError" /\ vrLog = <<>>

C20_Witness ==
    /\ vrPc = "done"
    /\ vrArgs.style = "curvy"
    /\ ~vrArgs.is_owner
    /\ vrResult.kind = "PermissionError"
    /\ vrLog = <<>>

\* a user other than the owner asked for a premium style and was turned away
PremiumLockSeen ==
    /\ update.kind = "callback"
    /\ update.data = <<"style", "curvy">>
    /\ update.uid = 2
    /\ 2 \in AUTHORIZED
    /\ outbox = <<Sent(2, "message", "PREMIUM_ONLY")>>
    /\ USER_STATE[2].style = "None"

\* the update handled in this step is a message of user u that is not a command
WaypointMessageOf(u) ==
    /\ update'.kind = "message"
    /\ update'.uid = u
    /\ update'.msg.text \notin {"/start", "/cancel"}

\* C21: every user's waypoint list holds at most MAX_WAYPOINTS entries, and a
\* waypoint message handled when the list already holds MAX_WAYPOINTS leaves
\* the list unchanged.
C21_WaypointLimit ==
    /\ [](\A u \in Users : Len(USER_STATE[u].waypoints) <= MAX_WAYPOINTS)
    /\ [][\A u \in Users :
            (WaypointMessageOf(u) /\ Len(USER_STATE[u].waypoints) = MAX_WAYPOINTS)
                => USER_STATE'[u].waypoints = USER_STATE[u].waypoints]_vars

C21_Witness ==
    /\ update.kind = "message"
    /\ update.msg.geocoded # NonePt
    /\ update.tg = "ok"
    /\ outbox = <<Sent(update.uid, "message", "WAYPOINTS_FULL")>>
    /\ Len(USER_STATE[update.uid].waypoints) = MAX_WAYPOINTS
    /\ USER_STATE[update.uid].phase = "waypoints"

\* the step in which a route computation whose oracle call succeeded ends
RunEndsWithRoute == runPc = "route" /\ runPc' = "done" /\ vrResult.kind = "ok"
\* the last delivery to the user of the run lies less than a week back
InsideWindow == now - LAST_DOWNLOAD[runUid] < RATE_LIMIT_DAYS * 86400
DocumentsIn(box) == {i \in 1..Len(box) : box[i].kind = "document"}

RECURSIVE PathLength(_)
PathLength(path) ==
    IF Len(path) < 2 THEN 0
    ELSE haversine_km(path[1], path[2]) + PathLength(Tail(path))
\* the locations the computation requests for a conversation state
RequestedLocs(st) ==
    IF st.roundtrip
    THEN tune_roundtrip_length(st.start, st.waypoints, RT_TARGET_MIN, RT_TARGET_MAX,
                               IF st.direction \in DOMAIN BEARING_MAP
                               THEN BEARING_MAP[st.direction] ELSE 45).locs
    ELSE <<st.start>> \o st.waypoints \o <<st.end>>
\* the straight-line estimate of the requested route: a round trip is closed
StraightLineEstimate(st) ==
    LET locs == RequestedLocs(st)
    IN  PathLength(IF st.roundtrip THEN Append(locs, locs[1]) ELSE locs)
\* the step in which the computation gets past the reading of its input
RunDecides == runPc = "idle" /\ runPc' \in {"route", "done"}

C25_StyleSelectedHasInput ==
    \A u \in Users :
        USER_STATE[u].phase = "style_selected" =>
            /\ USER_STATE[u].start # NonePt
            /\ (USER_STATE[u].roundtrip \/ USER_STATE[u].end # NonePt)

HasFallback == VALHALLA_URL_FALLBACK # "" /\ VALHALLA_URL_FALLBACK # VALHALLA_URL
\* the requests of the call that went to the primary URL: each request went to
\* the primary or, where there is one, to the fallback
ToPrimary == {i \in 1..Len(vrLog) : vrLog[i].url = VALHALLA_URL}
ToFallback == {i \in 1..Len(vrLog) : vrLog[i].url # VALHALLA_URL}
\* the primary has failed all its attempts, or has answered without "trip"
PrimaryGaveUp(k) ==
    \/ /\ k = POST_RETRIES + 1
       /\ \A i \in 1..k : ~ReplyJson(vrLog[i].reply)
    \/ /\ k \in 1..(POST_RETRIES + 1)
       /\ vrLog[k].reply.kind = "ok_no_trip"
       /\ \A i \in 1..(k - 1) : ~ReplyJson(vrLog[i].reply)

\* C27: valhalla_route posts to the fallback URL only after the primary has
\* failed all its attempts or answered without "trip", and never when the
\* fallback is unset or equal to the primary; a call makes at most
\* 2 x (retries + 1) requests, none after a response that holds "trip", and ends
\* returning what it built from such a response or raising.
C27_FallbackAfterPrimary ==
    /\ Len(vrLog) <= 2 * (POST_RETRIES + 1)
    /\ ~HasFallback => (ToFallback = {} /\ Len(vrLog) <= POST_RETRIES + 1)
    /\ \A i \in ToFallback :
           /\ vrLog[i].url = VALHALLA_URL_FALLBACK
           /\ \E k \in 1..(i - 1) :
                 /\ 1..k \subseteq ToPrimary
                 /\ (k + 1)..i \subseteq ToFallback
                 /\ PrimaryGaveUp(k)
    /\ \A i \in 1..Len(vrLog) : vrLog[i].reply.kind = "ok_trip" => i = Len(vrLog)
    /\ vrPc = "done" =>
           IF vrResult.kind = "ok"
           THEN /\ vrLog # <<>>
                /\ vrLog[Len(vrLog)].reply.kind = "ok_trip"
                /\ vrResult.value = MergeTrip(vrLog[Len(vrLog)].reply.trip)
           ELSE vrResult.kind \in {"RuntimeError", "PermissionError", "IndexError",
                                   "KeyError", "TypeError", "ValueError"}

C27_Witness ==
    /\ HasFallback
    /\ Len(vrLog) = 2 * (POST_RETRIES + 1)
    /\ vrLog[POST_RETRIES + 1].url = VALHALLA_URL
    /\ vrLog[POST_RETRIES + 2].url = VALHALLA_URL_FALLBACK
    /\ vrPc = "done"
    /\ vrResult.kind = "ok"

\* the candidate bases of the call in tnArgs, in list order
TuneCandidates ==
    IF tnArgs.waypoints # <<>> THEN <<18, 20, 22>> ELSE <<18, 20, 22, 24, 26>>
\* the locations of candidate k, and the length in metres of their closed circuit
CandidateLocs(k) ==
    <<tnArgs.start>> \o
    (IF tnArgs.waypoints # <<>> THEN tnArgs.waypoints
     ELSE seed_roundtrip_locations(tnArgs.start[1], tnArgs.start[2], TuneCandidates[k],
                                   tnArgs.bearing_deg))
CandidateEstimate(k) == PathLength(Append(CandidateLocs(k), tnArgs.start))
\* how far, in metres, the estimate of candidate k lies outside the band
OffBand(k) ==
    LET est == CandidateEstimate(k)
    IN  IF est < tnArgs.desired_min * 1000 THEN tnArgs.desired_min * 1000 - est
        ELSE IF est > tnArgs.desired_max * 1000 THEN est - tnArgs.desired_max * 1000
        ELSE 0
CandidateIndices == 1..Len(TuneCandidates)

\* C28: tune_roundtrip_length returns the first candidate base, in list order,
\* whose closed-circuit estimate lies within the band, and runs its loop for no
\* candidate after that one; with no candidate in the band it returns the one
\* whose estimate is closest to the band, the earliest of them on a tie, having
\* run through all; what it returns is one of the candidates with its locations
\* and estimate, and the call makes no oracle request.
C28_FirstInBandElseClosest ==
    tnOut # NotTuned =>
        /\ vrLog = <<>> /\ vrPc = "idle"
        /\ \E k \in CandidateIndices :
              /\ tnOut.used_base = TuneCandidates[k]
              /\ tnOut.locs = CandidateLocs(k)
              /\ tnOut.approx_km = CandidateEstimate(k)
              /\ IF \E j \in CandidateIndices : OffBand(j) = 0
                 THEN /\ OffBand(k) = 0
                      /\ \A j \in 1..(k - 1) : OffBand(j) > 0
                      /\ tnOut.evaluated = SubSeq(TuneCandidates, 1, k)
                 ELSE /\ \A j \in CandidateIndices : OffBand(k) <= OffBand(j)
                      /\ \A j \in 1..(k - 1) : OffBand(j) > OffBand(k)
                      /\ tnOut.evaluated = TuneCandidates

C28_Witness ==
    /\ tnOut # NotTuned
    /\ tnArgs.waypoints = <<>>
    /\ tnOut.used_base = 20
    /\ tnOut.evaluated = <<18, 20>>
    /\ OffBand(1) > 0
    /\ OffBand(2) = 0

\* a call in which every candidate has the same estimate outside the band
TieSeen ==
    /\ tnOut # NotTuned
    /\ tnArgs.waypoints # <<>>
    /\ OffBand(1) > 0
    /\ tnOut.used_base = 18
    /\ tnOut.evaluated = <<18, 20, 22>>
\* calls without waypoints in which no candidate is in the band
ClosestSeen ==
    /\ tnOut # NotTuned
    /\ tnArgs.waypoints = <<>>
    /\ \A j \in CandidateIndices : OffBand(j) > 0
    /\ tnOut.used_base = 26

\* C30: in every state of a conversation roundtrip = true implies end = None;
\* phase "end" is only held with roundtrip = false, and a destination is only
\* stored by an update that finds the user in phase "end".
C30_RoundtripHasNoEnd ==
    /\ [](\A u \in Users :
             /\ USER_STATE[u].roundtrip => USER_STATE[u].end = NonePt
             /\ USER_STATE[u].phase = "end" => ~USER_STATE[u].roundtrip)
    /\ [][\A u \in Users :
             (USER_STATE'[u].end # USER_STATE[u].end /\ USER_STATE'[u].end # NonePt)
                 => USER_STATE[u].phase = "end"]_vars

C30_Witness ==
    /\ update.kind = "callback"
    /\ update.data = <<"action", "roundtrip_now">>
    /\ USER_STATE[update.uid].roundtrip
    /\ USER_STATE[update.uid].end = NonePt
    /\ USER_STATE[update.uid].start # NonePt
    /\ USER_STATE[update.uid].waypoints # <<>>
    /\ USER_STATE[update.uid].phase = "direction"

\* C29: with two threads handling waypoint messages of the same user at once,
\* the user's waypoint list never holds more than MAX_WAYPOINTS places.
C29_WaypointLimitUnderRace ==
    \A u \in Users : Len(USER_STATE[u].waypoints) <= MAX_WAYPOINTS

OwnerApproves ==
    /\ update'.kind = "callback"
    /\ update'.uid = OWNER_ID
    /\ update'.tg # "answer_fails"
    /\ Len(update'.data) = 3
    /\ update'.data[1] = "admin"
    /\ update'.data[2] = "approve"
    /\ isdigit(update'.data[3])

\* C32: AUTHORIZED changes only while an "admin:approve:<uid>" callback of the
\* owner is handled, and then by gaining that uid; no update of another sender
\* changes it and no update, a deny included, takes a uid out of it.
C32_AuthorizedOnlyGrows ==
    [][/\ AUTHORIZED \subseteq AUTHORIZED'
       /\ AUTHORIZED' # AUTHORIZED =>
             /\ OwnerApproves
             /\ AUTHORIZED' = AUTHORIZED \cup {int(update'.data[3])}
       /\ update'.uid # OWNER_ID => AUTHORIZED' = AUTHORIZED
       /\ (update'.kind = "callback" /\ update'.data = <<"admin", "deny", "2">>)
             => AUTHORIZED' = AUTHORIZED]_vars

C32_Witness ==
    /\ update.kind = "callback"
    /\ update.uid = OWNER_ID
    /\ update.data = <<"admin", "deny", "2">>
    /\ update.tg = "ok"
    /\ 2 \in AUTHORIZED
    /\ outbox = <<Sent(2, "message", "ACCESS_DENIED"), Sent(OWNER_ID, "message", "DENIED")>>

\* the owner has just approved a user who was not authorized and had asked
ApprovalSeen ==
    /\ update.kind = "callback"
    /\ update.uid = OWNER_ID
    /\ update.data = <<"admin", "approve", "2">>
    /\ AUTHORIZED = {OWNER_ID, 2}
    /\ USER_STATE[2] # NoState
    /\ 2 \notin PENDING
    /\ handled >= 2

====
